---- MODULE Spec2Model ----
(***************************************************************************)
(* Rate-limited execution coordinator of google-chat-to-slack:             *)
(*   - the token bucket and the retrying executor (utils/rate-limiting/    *)
(*     token-bucket, kept in src/src/utils/user-cache.ts lines 100-284),   *)
(*   - the rate limiter manager (src/unnamed/part_019),                    *)
(*   - the Slack import driver (src/unnamed/part_004).                     *)
(* Time is Date.now() in milliseconds.  JavaScript runs one task at a      *)
(* time: everything between two awaits is one atomic step.                 *)
(***************************************************************************)
EXTENDS Integers, Sequences, FiniteSets, TLC

\* ------------------------------------------------------------------ bounds
MaxNow == 600
MaxCalls == 4
NumCallers == 2

Callers == 1..NumCallers

\* Clock advances between two tasks (ms).
TimeSteps == {50, 500}

\* ------------------------------------------------------------ arithmetic
Min(a, b) == IF a <= b THEN a ELSE b

\* Math.floor(x / y) for x >= 0, y > 0
Floor(x, y) == x \div y

MsPerSecond == 1000

\* ------------------------------------------------------- RateLimitConfig
\* refillRate (tokens per second) is the rational num/den.
CfgBurst ==
  [capacity |-> 3, refillRate |-> [num |-> 10, den |-> 1],
   maxRetries |-> 2, baseDelayMs |-> 50, maxDelayMs |-> 100]

CfgSlow ==
  [capacity |-> 1, refillRate |-> [num |-> 2, den |-> 1],
   maxRetries |-> 1, baseDelayMs |-> 100, maxDelayMs |-> 100]

Configs == {CfgBurst, CfgSlow}

\* a configuration whose backoff reaches maxDelayMs: 50, 100, 100
CfgCapped ==
  [capacity |-> 1, refillRate |-> [num |-> 2, den |-> 1],
   maxRetries |-> 3, baseDelayMs |-> 50, maxDelayMs |-> 100]

\* ----------------------------------------------------------- token bucket
\* Math.floor(timeDelta * refillRate), timeDelta = (now - lastRefillTime) / 1000
TokensToAdd(lastRefillTime, refillRate, t) ==
  Floor((t - lastRefillTime) * refillRate.num, MsPerSecond * refillRate.den)

CalculateTokensToAddUncapped(lastRefillTime, refillRate, capacity, currentTokens, t) ==
  [newTokens |-> currentTokens + TokensToAdd(lastRefillTime, refillRate, t),
   newRefillTime |-> t]

CalculateTokensToAdd(lastRefillTime, refillRate, capacity, currentTokens, t) ==
  [newTokens |->
     Min(capacity, currentTokens + TokensToAdd(lastRefillTime, refillRate, t)),
   newRefillTime |-> t]

Pow2(n) == 2 ^ n

CalculateBackoffDelayUncapped(attempt, baseDelayMs, maxDelayMs) ==
  baseDelayMs * Pow2(attempt)

CalculateBackoffDelay(attempt, baseDelayMs, maxDelayMs) ==
  Min(baseDelayMs * Pow2(attempt), maxDelayMs)

\* state of createTokenBucket(config) right after construction at time t
CreateTokenBucket(config, t) ==
  [tokens |-> config.capacity, lastRefillTime |-> t]

\* refillTokens(): state after the refill at time t
RefillTokens(state, config, t) ==
  LET r == CalculateTokensToAdd(state.lastRefillTime, config.refillRate,
                                config.capacity, state.tokens, t)
  IN  [tokens |-> r.newTokens, lastRefillTime |-> r.newRefillTime]

TokenAvailableNonNegative(tokens) == tokens >= 0

\* the test "state.tokens >= 1" of acquireToken
TokenAvailable(tokens) == tokens >= 1

AcquireIterationTakeAll(state, config, attempt, t) ==
  LET r == RefillTokens(state, config, t)
  IN  IF TokenAvailable(r.tokens)
        THEN [state |-> [r EXCEPT !.tokens = 0],
              outcome |-> "acquired", delayMs |-> 0]
        ELSE IF attempt < config.maxRetries
          THEN [state |-> r, outcome |-> "sleep",
                delayMs |-> CalculateBackoffDelay(attempt, config.baseDelayMs,
                                                  config.maxDelayMs)]
          ELSE [state |-> r, outcome |-> "exhausted", delayMs |-> 0]

\* One pass of the while loop of acquireToken, from refillTokens() to the
\* return, the await sleep() or the throw.  No await in between: atomic.
AcquireIteration(state, config, attempt, t) ==
  LET r == RefillTokens(state, config, t)
  IN  IF TokenAvailable(r.tokens)
        THEN [state |-> [r EXCEPT !.tokens = r.tokens - 1],
              outcome |-> "acquired", delayMs |-> 0]
        ELSE IF attempt < config.maxRetries
          THEN [state |-> r, outcome |-> "sleep",
                delayMs |-> CalculateBackoffDelay(attempt, config.baseDelayMs,
                                                  config.maxDelayMs)]
          ELSE [state |-> r, outcome |-> "exhausted", delayMs |-> 0]

\* --------------------------------------------------------------- variables
VARIABLES
  now,        \* Date.now()
  cfg,        \* config the bucket was created with
  bucket,     \* TokenBucketState {tokens, lastRefillTime}
  cpc,        \* per caller of acquireToken: "idle" | "sleeping"
  cAttempt,   \* per caller: local variable attempt
  cWakeAt,    \* per caller: time the pending sleep() timer is due
  cResult,    \* per caller: how its last acquireToken call settled
  started,    \* number of acquireToken calls made
  succeeded,  \* number of acquireToken calls that resolved
  refilled,   \* number of tokens added by refillTokens
  observed,   \* last getAvailableTokens() call
  base,       \* bucket state and time after the last acquireToken pass
  \* one run of the function returned by createRateLimitedExecutor
  epc,        \* "idle" | "acquiring" | "fn" | "backoff" | "returned" | "thrown"
  eAttempt,   \* local variable attempt of the executor
  bAttempt,   \* local variable attempt of the acquireToken call in progress
  eWakeAt,    \* time the pending sleep() timer of the run is due
  fnCalls,    \* invocations of fn in this run
  fnOutcomes, \* how each invocation of fn settled in this run
  acqThrows,  \* acquireToken calls of this run that threw
  eError,     \* the error the run threw
  runs,       \* number of runs started
  \* rate limiter manager (globalState)
  tokenBuckets, \* Map service -> TokenBucketState of its bucket
  configs,      \* Map service -> RateLimitConfig
  executors,    \* services that have an executor in globalState.executors
  \* executeWithRateLimit call of the import worker
  ipc,        \* where the import worker is
  phase,      \* "none" | "acquire" | "inflight" | "settled"
  wAttempt,   \* local variable attempt of the acquireToken call in progress
  wWakeAt,    \* time the pending sleep() timer of the worker is due
  wFnCalls,   \* invocations of fn by the current executeWithRateLimit call
  wOutcome,   \* how the last outbound call settled: "ok" | "notok" | "error"
  wError,     \* the error the last outbound call threw to its caller
  tokenTaken, \* a token was acquired for the call in flight
  \* importSlackData / processChannel / postSlackMessage
  chan,       \* channels started
  msgIdx,     \* messages of the channel started
  msg,        \* the message being processed (messageWithThread)
  threadMap,  \* Map threadId -> Slack ts of the thread's first message
  messageTs,  \* local variable messageTs of postSlackMessage (0: undefined)
  attIdx,     \* attachment the upload loop in progress is at
  allocated,  \* uploadData.length: getUploadURLExternal calls completed
  transferred, \* upload POSTs completed
  finalized,  \* completeUploadExternal completed
  reactIdx,   \* reaction the loop of addReactionsToMessage is at
  rootPosted, \* per threadId: ts returned by its first root post (0: none)
  msgErrors,  \* logger.addError calls made for the current message
  \* isRateLimitError
  classified, \* the last call: its argument and its result
  \* exportGoogleChatData
  xpc,        \* where the export run is
  spaces,     \* per target space: "listing" | "listed" | "processing" | "exported"
  \* workers of the rate limiter manager
  mw,         \* per worker: its pending manager.acquireToken(service) call
  created,    \* per service: number of token buckets constructed for it
  replaced,   \* replaced buckets a pending acquireToken call still holds
  granted,    \* per service: tokens taken since its first bucket was built
  touchedAt,  \* per service: time its first bucket was constructed
  mcalls,     \* number of manager.acquireToken calls made
  configured, \* the services manager.configure was called for
  mconfigures, \* number of manager.configure calls made
  lastConfigure, \* the manager.configure call that has just returned
  \* configureForExport / configureForImport
  command,    \* the command configuration call that has just returned
  \* calculateBackoffDelay
  backoff,    \* arguments and result of the call, and the previous result
  \* RateLimiter (utils/rate-limiter.ts)
  limiter,    \* requestHistory, the execute calls in progress, the starts seen
  \* UserCache (utils/user-cache.ts)
  userCache   \* the entries, the failed sets in a row, the last result

bucketVars == <<cfg, bucket, cpc, cAttempt, cWakeAt, cResult, started,
                succeeded, refilled, observed, base>>



execVars == <<epc, eAttempt, bAttempt, eWakeAt, fnCalls, fnOutcomes,
              acqThrows, eError, runs>>

managerVars == <<tokenBuckets, configs, executors>>

callVars == <<ipc, phase, wAttempt, wWakeAt, wFnCalls, wOutcome, wError,
              tokenTaken>>

channelVars == <<chan, msgIdx, msg, threadMap, messageTs, attIdx, allocated,
                 transferred, finalized, reactIdx, rootPosted, msgErrors>>

importVars == <<managerVars, callVars, channelVars>>

exportVars == <<xpc, spaces>>

\* the variables outside the token bucket, the executor and the import
registryVars == <<mw, created, replaced, granted, touchedAt, mcalls,
                  configured, mconfigures, lastConfigure>>

\* the variables of the stand-alone utilities
utilVars == <<command, backoff, limiter, userCache>>

extraVars == <<exportVars, classified, registryVars, utilVars>>

vars == <<now, bucketVars, execVars, importVars, extraVars>>

NoObservation ==
  [valid |-> FALSE, value |-> 0, preTokens |-> 0, accrued |-> 0]

\* ------------------------------------------------------- token bucket spec
\* a bucket created at time 0 with one of the given configurations
InitBucketFor(configurations) ==
  /\ now = 0
  /\ cfg \in configurations
  /\ bucket = CreateTokenBucket(cfg, 0)
  /\ cpc = [p \in Callers |-> "idle"]
  /\ cAttempt = [p \in Callers |-> 0]
  /\ cWakeAt = [p \in Callers |-> 0]
  /\ cResult = [p \in Callers |-> "none"]
  /\ started = 0
  /\ succeeded = 0
  /\ refilled = 0
  /\ observed = NoObservation
  /\ base = [tokens |-> cfg.capacity, time |-> 0]

InitBucket == InitBucketFor(Configs)

\* the event loop runs the sleep() timer of caller p when it is due: the
\* clock reaches the due time
SleepTick(p) ==
  /\ cpc[p] = "sleeping"
  /\ now < cWakeAt[p]
  /\ now' = cWakeAt[p]
  /\ observed' = NoObservation
  /\ UNCHANGED <<cfg, bucket, cpc, cAttempt, cWakeAt, cResult, started,
                 succeeded, refilled, base>>

\* the clock moves forward, never backwards
Tick ==
  /\ \E d \in TimeSteps : now + d <= MaxNow /\ now' = now + d
  /\ observed' = NoObservation
  /\ UNCHANGED <<cfg, bucket, cpc, cAttempt, cWakeAt, cResult, started,
                 succeeded, refilled, base>>

\* one pass of acquireToken's loop by caller p with the given attempt
AcquirePass(p, attempt) ==
  LET it == AcquireIteration(bucket, cfg, attempt, now)
  IN  /\ bucket' = it.state
      /\ refilled' = refilled + (RefillTokens(bucket, cfg, now).tokens - bucket.tokens)
      /\ base' = [tokens |-> it.state.tokens, time |-> now]
      /\ observed' = NoObservation
      /\ IF it.outcome = "acquired"
           THEN /\ cpc' = [cpc EXCEPT ![p] = "idle"]
                /\ cResult' = [cResult EXCEPT ![p] = "acquired"]
                /\ cAttempt' = [cAttempt EXCEPT ![p] = 0]
                /\ cWakeAt' = [cWakeAt EXCEPT ![p] = 0]
                /\ succeeded' = succeeded + 1
           ELSE IF it.outcome = "sleep"
             THEN /\ cpc' = [cpc EXCEPT ![p] = "sleeping"]
                  /\ cResult' = [cResult EXCEPT ![p] = "pending"]
                  /\ cAttempt' = [cAttempt EXCEPT ![p] = attempt]
                  /\ cWakeAt' = [cWakeAt EXCEPT ![p] = now + it.delayMs]
                  /\ UNCHANGED succeeded
             ELSE /\ cpc' = [cpc EXCEPT ![p] = "idle"]
                  /\ cResult' = [cResult EXCEPT ![p] = "exhausted"]
                  /\ cAttempt' = [cAttempt EXCEPT ![p] = 0]
                  /\ cWakeAt' = [cWakeAt EXCEPT ![p] = 0]
                  /\ UNCHANGED succeeded

\* tokenBucket.acquireToken() is called: attempt = 0 and the first pass
AcquireToken(p) ==
  /\ cpc[p] = "idle"
  /\ started < MaxCalls
  /\ started' = started + 1
  /\ AcquirePass(p, 0)
  /\ UNCHANGED <<now, cfg>>

\* the sleep() timer fired: attempt++ and the next pass
AcquireResume(p) ==
  /\ cpc[p] = "sleeping"
  /\ now >= cWakeAt[p]
  /\ AcquirePass(p, cAttempt[p] + 1)
  /\ UNCHANGED <<now, cfg, started>>

\* getAvailableTokens(): refillTokens() and return state.tokens
GetAvailableTokens ==
  LET r == RefillTokens(bucket, cfg, now)
  IN  /\ bucket' = r
      /\ refilled' = refilled + (r.tokens - bucket.tokens)
      /\ observed' = [valid |-> TRUE, value |-> r.tokens,
                      preTokens |-> bucket.tokens,
                      accrued |-> TokensToAdd(bucket.lastRefillTime,
                                              cfg.refillRate, now)]
      /\ UNCHANGED <<now, cfg, cpc, cAttempt, cWakeAt, cResult, started,
                     succeeded, base>>

\* ------------------------------------------------------------- error shapes
\* An error object as isRateLimitError inspects it: has* says whether the
\* property exists ('x' in error), status/code its value (0 / "" when
\* undefined), message the set of the tested substrings the text contains.
MsgQuotaExceeded == "Quota exceeded"
MsgQuotaMetric == "quota metric"
MsgCriticalRead == "Critical read requests"
MsgRateLimited == "rate_limited"
MsgRateLimitExceeded == "Rate limit exceeded"

RateLimitSubstringsOfPlatforms ==
  {MsgQuotaExceeded, MsgQuotaMetric, MsgCriticalRead, MsgRateLimited}

RateLimitSubstrings ==
  {MsgQuotaExceeded, MsgQuotaMetric, MsgCriticalRead, MsgRateLimited,
   MsgRateLimitExceeded}

SlackRateLimitedCode == "slack_webapi_rate_limited"
SlackPlatformErrorCode == "slack_webapi_platform_error"

NoError ==
  [name |-> "none", hasResponse |-> FALSE, responseStatus |-> 0,
   hasStatus |-> FALSE, status |-> 0, hasCode |-> FALSE, code |-> "",
   dataError |-> "", isError |-> FALSE, message |-> {}]

\* GaxiosError with response.status 429
ErrGaxios429 ==
  [NoError EXCEPT !.name = "gaxios429", !.hasResponse = TRUE,
                  !.responseStatus = 429, !.isError = TRUE]

\* GaxiosError with response.status 500
ErrGaxios500 ==
  [NoError EXCEPT !.name = "gaxios500", !.hasResponse = TRUE,
                  !.responseStatus = 500, !.isError = TRUE]

\* GaxiosError with response.status 403
ErrGaxios403 ==
  [NoError EXCEPT !.name = "gaxios403", !.hasResponse = TRUE,
                  !.responseStatus = 403, !.isError = TRUE]

\* error carrying code 'slack_webapi_rate_limited'
ErrSlackRateLimited ==
  [NoError EXCEPT !.name = "slackRateLimited", !.hasCode = TRUE,
                  !.code = SlackRateLimitedCode, !.isError = TRUE]

\* new Error('Quota exceeded for quota metric ...')
ErrQuotaMessage ==
  [NoError EXCEPT !.name = "quotaMessage", !.isError = TRUE,
                  !.message = {MsgQuotaExceeded, MsgQuotaMetric}]

\* new Error('boom')
ErrPlain == [NoError EXCEPT !.name = "plain", !.isError = TRUE]

\* network-transport failure: Error with code 'ECONNRESET'
NetworkResetCode == "ECONNRESET"

ErrNetworkReset ==
  [NoError EXCEPT !.name = "networkReset", !.hasCode = TRUE,
                  !.code = NetworkResetCode, !.isError = TRUE,
                  !.message = {}]

\* the Error acquireToken throws: `Rate limit exceeded: No tokens available ...`
ErrBucketExhausted ==
  [NoError EXCEPT !.name = "bucketExhausted", !.isError = TRUE,
                  !.message = {MsgRateLimitExceeded}]

\* the Error after the executor's loop: `Rate limit exceeded: Max retries ...`
ErrMaxRetries ==
  [NoError EXCEPT !.name = "maxRetries", !.isError = TRUE,
                  !.message = {MsgRateLimitExceeded}]

IsRateLimitError(error) ==
  IF error.hasResponse THEN error.responseStatus = 429
  ELSE IF error.hasStatus THEN error.status = 429
  ELSE IF error.hasCode THEN error.code = SlackRateLimitedCode
  ELSE IF error.isError /\ error.message # {}
    THEN RateLimitSubstrings \cap error.message # {}
  ELSE FALSE

\* what the work function may throw
FnErrors ==
  {ErrGaxios429, ErrSlackRateLimited, ErrQuotaMessage, ErrGaxios500,
   ErrNetworkReset, ErrGaxios403, ErrPlain}

\* ------------------------------------------------ createRateLimitedExecutor
MaxRuns == 2

InitExec ==
  /\ epc = "idle"
  /\ eAttempt = 0
  /\ bAttempt = 0
  /\ eWakeAt = 0
  /\ fnCalls = 0
  /\ fnOutcomes = <<>>
  /\ acqThrows = 0
  /\ eError = NoError
  /\ runs = 0

ShouldRetryOneLess(isRateLimit, attempt, maxRetries) ==
  isRateLimit /\ attempt + 1 < maxRetries

\* the test "isRateLimit && attempt < config.maxRetries" of the catch block
ShouldRetry(isRateLimit, attempt, maxRetries) ==
  isRateLimit /\ attempt < maxRetries

ExecCatchRetryAny(error, attempt) ==
  IF attempt < cfg.maxRetries
    THEN /\ epc' = "backoff"
         /\ eWakeAt' = now + CalculateBackoffDelay(attempt, cfg.baseDelayMs,
                                                   cfg.maxDelayMs)
         /\ eError' = NoError
    ELSE /\ epc' = "thrown"
         /\ eWakeAt' = 0
         /\ eError' = error

\* the catch block of the executor, entered with error in the given attempt
ExecCatch(error, attempt) ==
  IF ShouldRetry(IsRateLimitError(error), attempt, cfg.maxRetries)
    THEN /\ epc' = "backoff"
         /\ eWakeAt' = now + CalculateBackoffDelay(attempt, cfg.baseDelayMs,
                                                   cfg.maxDelayMs)
         /\ eError' = NoError
    ELSE /\ epc' = "thrown"
         /\ eWakeAt' = 0
         /\ eError' = error

ExecAcquirePassIgnoreFailure(attempt, bucketAttempt, calls, throws) ==
  LET it == AcquireIteration(bucket, cfg, bucketAttempt, now)
  IN  /\ bucket' = it.state
      /\ IF it.outcome = "sleep"
           THEN /\ epc' = "acquiring"
                /\ fnCalls' = calls
                /\ acqThrows' = throws
                /\ bAttempt' = bucketAttempt
                /\ eWakeAt' = now + it.delayMs
                /\ eError' = NoError
           ELSE /\ epc' = "fn"
                /\ fnCalls' = calls + 1
                /\ acqThrows' = throws
                /\ bAttempt' = 0
                /\ eWakeAt' = 0
                /\ eError' = NoError

\* one pass of tokenBucket.acquireToken() inside the try block of executor
\* attempt `attempt`; when the token is taken fn() is invoked next.
\* calls / throws: fnCalls and acqThrows of the run so far.
ExecAcquirePass(attempt, bucketAttempt, calls, throws) ==
  LET it == AcquireIteration(bucket, cfg, bucketAttempt, now)
  IN  /\ bucket' = it.state
      /\ IF it.outcome = "acquired"
           THEN /\ epc' = "fn"
                /\ fnCalls' = calls + 1
                /\ acqThrows' = throws
                /\ bAttempt' = 0
                /\ eWakeAt' = 0
                /\ eError' = NoError
           ELSE IF it.outcome = "sleep"
             THEN /\ epc' = "acquiring"
                  /\ fnCalls' = calls
                  /\ acqThrows' = throws
                  /\ bAttempt' = bucketAttempt
                  /\ eWakeAt' = now + it.delayMs
                  /\ eError' = NoError
             ELSE /\ fnCalls' = calls
                  /\ acqThrows' = throws + 1
                  /\ bAttempt' = 0
                  /\ ExecCatch(ErrBucketExhausted, attempt)

\* the executor is called with fn: attempt = 0, first acquireToken pass
ExecCall ==
  /\ epc \in {"idle", "returned", "thrown"}
  /\ runs < MaxRuns
  /\ runs' = runs + 1
  /\ eAttempt' = 0
  /\ fnOutcomes' = <<>>
  /\ ExecAcquirePass(0, 0, 0, 0)
  /\ UNCHANGED <<now, cfg, cpc, cAttempt, cWakeAt, cResult, started,
                 succeeded, refilled, observed, base>>

\* the sleep() inside acquireToken is over: attempt++ and the next pass
ExecAcquireResume ==
  /\ epc = "acquiring"
  /\ now >= eWakeAt
  /\ ExecAcquirePass(eAttempt, bAttempt + 1, fnCalls, acqThrows)
  /\ UNCHANGED <<now, cfg, cpc, cAttempt, cWakeAt, cResult, started,
                 succeeded, refilled, observed, base, eAttempt, fnOutcomes,
                 runs>>

\* fn() resolves: the executor returns its result
ExecFnResolves ==
  /\ epc = "fn"
  /\ epc' = "returned"
  /\ fnOutcomes' = Append(fnOutcomes, NoError)
  /\ UNCHANGED <<now, bucketVars, eAttempt, bAttempt, eWakeAt, fnCalls,
                 acqThrows, eError, runs>>

\* fn() rejects with error: the catch block
ExecFnRejects ==
  /\ epc = "fn"
  /\ \E error \in FnErrors :
       /\ fnOutcomes' = Append(fnOutcomes, error)
       /\ ExecCatch(error, eAttempt)
  /\ UNCHANGED <<now, bucketVars, eAttempt, bAttempt, fnCalls, acqThrows,
                 runs>>

\* the backoff sleep() of the catch block is over: attempt++, continue; the
\* loop condition is tested and the next acquireToken call makes its first pass
ExecBackoffResume ==
  /\ epc = "backoff"
  /\ now >= eWakeAt
  /\ eAttempt' = eAttempt + 1
  /\ IF eAttempt + 1 <= cfg.maxRetries
       THEN ExecAcquirePass(eAttempt + 1, 0, fnCalls, acqThrows)
       ELSE /\ epc' = "thrown"
            /\ eError' = ErrMaxRetries
            /\ eWakeAt' = 0
            /\ UNCHANGED <<bucket, bAttempt, fnCalls, acqThrows>>
  /\ UNCHANGED <<now, cfg, cpc, cAttempt, cWakeAt, cResult, started,
                 succeeded, refilled, observed, base, fnOutcomes, runs>>

\* the clock moves forward while a run is in progress
ExecTick ==
  /\ \E d \in TimeSteps : now + d <= MaxNow /\ now' = now + d
  /\ UNCHANGED <<bucketVars, execVars, extraVars>>

\* ------------------------------------------------------ rate limiter manager
ServiceGoogleChat == "google-chat"
ServiceGoogleDirectory == "google-directory"
ServiceSlack == "slack"

Services == {ServiceGoogleChat, ServiceGoogleDirectory, ServiceSlack}

\* DEFAULT_CONFIGS
DefaultConfigs ==
  [s \in Services |->
     CASE s = ServiceGoogleChat ->
            [capacity |-> 15, refillRate |-> [num |-> 12, den |-> 1],
             maxRetries |-> 5, baseDelayMs |-> 1000, maxDelayMs |-> 30000]
       [] s = ServiceGoogleDirectory ->
            [capacity |-> 10, refillRate |-> [num |-> 3, den |-> 2],
             maxRetries |-> 3, baseDelayMs |-> 2000, maxDelayMs |-> 60000]
       [] s = ServiceSlack ->
            [capacity |-> 5, refillRate |-> [num |-> 1, den |-> 1],
             maxRetries |-> 5, baseDelayMs |-> 2000, maxDelayMs |-> 60000]]

\* IMPORT_RATE_LIMITS.slack, a Partial<RateLimitConfig>
ImportSlackOverride ==
  [capacity |-> 3, refillRate |-> [num |-> 4, den |-> 5]]

GetDefaultConfig(service) == DefaultConfigs[service]

ConfigFields ==
  {"capacity", "refillRate", "maxRetries", "baseDelayMs", "maxDelayMs"}

MergeConfigWithDefaultsFalsy(service, override) ==
  [f \in ConfigFields |->
     IF f \in DOMAIN override /\ ~(f # "refillRate" /\ override[f] = 0)
       THEN override[f]
       ELSE GetDefaultConfig(service)[f]]

\* override: the fields the Partial sets (a function on a subset of the
\* field names; the empty function when the override is undefined)
MergeConfigWithDefaults(service, override) ==
  [f \in ConfigFields |->
     IF f \in DOMAIN override THEN override[f]
                              ELSE GetDefaultConfig(service)[f]]

\* Map operations
EmptyMap == [k \in {} |-> 0]

MapHas(m, k) == k \in DOMAIN m

MapSet(m, k, v) == [x \in DOMAIN m \cup {k} |-> IF x = k THEN v ELSE m[x]]

\* globalState of the manager as one value
GlobalState ==
  [tokenBuckets |-> tokenBuckets, executors |-> executors,
   configs |-> configs]

InitializeServiceKeepBucket(state, service, config, t) ==
  [tokenBuckets |-> IF MapHas(state.tokenBuckets, service)
                      THEN state.tokenBuckets
                      ELSE MapSet(state.tokenBuckets, service,
                                  CreateTokenBucket(config, t)),
   executors |-> state.executors \cup {service},
   configs |-> MapSet(state.configs, service, config)]

\* initializeService(service, config) at time t
InitializeService(state, service, config, t) ==
  [tokenBuckets |-> MapSet(state.tokenBuckets, service,
                           CreateTokenBucket(config, t)),
   executors |-> state.executors \cup {service},
   configs |-> MapSet(state.configs, service, config)]

EnsureServiceInitializedAlways(state, service, t) ==
  InitializeService(state, service, GetDefaultConfig(service), t)

EnsureServiceInitialized(state, service, t) ==
  IF ~MapHas(state.tokenBuckets, service)
    THEN InitializeService(state, service, GetDefaultConfig(service), t)
    ELSE state

\* configureForImport(IMPORT_RATE_LIMITS) at time t
ConfigureForImport(state, slackOverride, t) ==
  InitializeService(state, ServiceSlack,
                    MergeConfigWithDefaults(ServiceSlack, slackOverride), t)

\* --------------------------------------------------------- Slack import run
MaxImportNow == 6000
MaxChannels == 2
MaxMessages == 2
MaxAttachments == 2
MaxReactions == 1

\* the clock advances in steps of ImportTimeStepMs during an import
ImportTimeStepMs == 2000

\* setTimeout(resolve, 5000) after completeUploadExternal
UploadSettleMs == 5000

ThreadKeys == {"t1", "t2"}

\* threadId of a message outside any thread (falsy)
NoThread == ""

NoMessage ==
  [threadId |-> NoThread, threadReply |-> FALSE, nAttachments |-> 0,
   nReactions |-> 0, thread_ts |-> 0, isTopLevelMessage |-> FALSE]

\* outbound calls that are wrapped in withSlackRateLimit
GatedSites ==
  {"list", "create", "info", "list2", "postText", "allocate", "finalize"}

\* outbound calls made directly: fetch(uploadUrl), slack.reactions.add
UngatedSites == {"transfer", "reaction"}

\* code 'slack_webapi_platform_error' with data.error 'name_taken'
ErrSlackNameTaken ==
  [NoError EXCEPT !.name = "nameTaken", !.hasCode = TRUE,
                  !.code = SlackPlatformErrorCode, !.dataError = "name_taken",
                  !.isError = TRUE]

\* code 'slack_webapi_platform_error' with data.error 'invalid_auth'
ErrSlackInvalidAuth ==
  [NoError EXCEPT !.name = "invalidAuth", !.hasCode = TRUE,
                  !.code = SlackPlatformErrorCode,
                  !.dataError = "invalid_auth", !.isError = TRUE]

\* what an outbound call of the import may reject with
RejectErrors(site) ==
  IF site = "transfer" THEN {ErrPlain}
  ELSE {ErrSlackRateLimited, ErrSlackNameTaken, ErrSlackInvalidAuth}

InitImport ==
  /\ tokenBuckets = EmptyMap
  /\ configs = EmptyMap
  /\ executors = {}
  /\ ipc = "idle"
  /\ phase = "none"
  /\ wAttempt = 0
  /\ wWakeAt = 0
  /\ wFnCalls = 0
  /\ wOutcome = "none"
  /\ wError = NoError
  /\ tokenTaken = FALSE
  /\ chan = 0
  /\ msgIdx = 0
  /\ msg = NoMessage
  /\ threadMap = EmptyMap
  /\ messageTs = 0
  /\ attIdx = 0
  /\ allocated = 0
  /\ transferred = 0
  /\ finalized = FALSE
  /\ reactIdx = 0
  /\ rootPosted = [k \in ThreadKeys |-> 0]
  /\ msgErrors = 0

\* control reaches the outbound call `site`: a call wrapped in
\* withSlackRateLimit starts with manager.acquireToken, a direct call is
\* issued at once
Enter(site) ==
  /\ ipc' = site
  /\ phase' = IF site \in GatedSites THEN "acquire" ELSE "inflight"
  /\ wAttempt' = 0
  /\ wWakeAt' = 0
  /\ wFnCalls' = 0
  /\ wOutcome' = "none"
  /\ wError' = NoError
  /\ tokenTaken' = FALSE

\* control reaches a place that is not an outbound call
Goto(place) ==
  /\ ipc' = place
  /\ phase' = "none"
  /\ wAttempt' = 0
  /\ wWakeAt' = 0
  /\ wFnCalls' = 0
  /\ wOutcome' = "none"
  /\ wError' = NoError
  /\ tokenTaken' = FALSE

\* executeWithRateLimit: one pass of manager.acquireToken(SLACK); when the
\* token is taken fn() is invoked
GatedAcquire ==
  /\ phase = "acquire"
  /\ now >= wWakeAt
  /\ LET g == IF wAttempt = 0
                THEN EnsureServiceInitialized(GlobalState, ServiceSlack, now)
                ELSE GlobalState
         it == AcquireIteration(g.tokenBuckets[ServiceSlack],
                                g.configs[ServiceSlack], wAttempt, now)
     IN  /\ tokenBuckets' = MapSet(g.tokenBuckets, ServiceSlack, it.state)
         /\ configs' = g.configs
         /\ executors' = g.executors
         /\ IF it.outcome = "acquired"
              THEN /\ phase' = "inflight"
                   /\ wFnCalls' = wFnCalls + 1
                   /\ tokenTaken' = TRUE
                   /\ wAttempt' = 0
                   /\ wWakeAt' = 0
                   /\ UNCHANGED <<wOutcome, wError>>
              ELSE IF it.outcome = "sleep"
                THEN /\ wWakeAt' = now + it.delayMs
                     /\ wAttempt' = wAttempt + 1
                     /\ UNCHANGED <<phase, wFnCalls, tokenTaken, wOutcome,
                                    wError>>
                ELSE /\ phase' = "settled"
                     /\ wOutcome' = "error"
                     /\ wError' = ErrBucketExhausted
                     /\ wAttempt' = 0
                     /\ wWakeAt' = 0
                     /\ UNCHANGED <<wFnCalls, tokenTaken>>
  /\ UNCHANGED <<now, ipc, channelVars>>

\* the outbound call in flight resolves; ok is the platform's `ok` flag (for
\* a lookup: the channel was found)
CallResolves ==
  /\ phase = "inflight"
  /\ phase' = "settled"
  /\ wOutcome' \in {"ok", "notok"}
  /\ wError' = NoError
  /\ tokenTaken' = FALSE
  /\ UNCHANGED <<now, managerVars, ipc, wAttempt, wWakeAt, wFnCalls,
                 channelVars>>

\* the outbound call in flight rejects; executeWithRateLimit lets the error
\* through to its caller
CallRejects ==
  /\ phase = "inflight"
  /\ phase' = "settled"
  /\ wOutcome' = "error"
  /\ wError' \in RejectErrors(ipc)
  /\ tokenTaken' = FALSE
  /\ UNCHANGED <<now, managerVars, ipc, wAttempt, wWakeAt, wFnCalls,
                 channelVars>>

\* time passes while the import waits: on a timer, on a call in flight or
\* on a file read
ImportTick ==
  /\ \/ phase = "inflight"
     \/ phase = "acquire" /\ now < wWakeAt
     \/ ipc = "uploadWait" /\ now < wWakeAt
     \/ ipc = "readFile"
  /\ now + ImportTimeStepMs <= MaxImportNow
  /\ now' = now + ImportTimeStepMs
  /\ UNCHANGED <<importVars, extraVars>>

\* the import command: configureForImport(IMPORT_RATE_LIMITS), then
\* importSlackData up to its loop over the channels
StartImport ==
  /\ ipc = "idle"
  /\ LET g == ConfigureForImport(GlobalState, ImportSlackOverride, now)
     IN  /\ tokenBuckets' = g.tokenBuckets
         /\ configs' = g.configs
         /\ executors' = g.executors
  /\ Goto("nextChannel")
  /\ UNCHANGED <<now, channelVars>>

\* importSlackData: processChannel is called for the next channel, up to
\* findOrCreateSlackChannel; nameIsId: the name starts with 'C'
ProcessChannel ==
  /\ ipc = "nextChannel"
  /\ chan < MaxChannels
  /\ chan' = chan + 1
  /\ msgIdx' = 0
  /\ msg' = NoMessage
  /\ threadMap' = EmptyMap
  /\ messageTs' = 0
  /\ rootPosted' = [k \in ThreadKeys |-> 0]
  /\ msgErrors' = 0
  /\ \E nameIsId \in BOOLEAN :
       IF nameIsId THEN Goto("nextMessage") ELSE Enter("list")
  /\ UNCHANGED <<now, managerVars, attIdx, allocated, transferred, finalized,
                 reactIdx>>

\* importSlackData: no channel left, the summary is displayed
ImportDone ==
  /\ ipc = "nextChannel"
  /\ Goto("done")
  /\ UNCHANGED <<now, managerVars, channelVars>>

\* findSlackChannelByName: any failure yields undefined
ListContinues ==
  /\ ipc = "list" /\ phase = "settled"
  /\ IF wOutcome = "ok" THEN Goto("nextMessage") ELSE Enter("create")
  /\ UNCHANGED <<now, managerVars, channelVars>>

\* the error of createSlackChannel is name_taken
IsNameTaken(error) ==
  error.hasCode /\ error.code = SlackPlatformErrorCode
    /\ error.dataError = "name_taken"

\* createSlackChannel inside findOrCreateSlackChannel: a failure other than
\* name_taken is rethrown, through processChannel, out of importSlackData
CreateContinues ==
  /\ ipc = "create" /\ phase = "settled"
  /\ IF wOutcome = "ok" THEN Goto("nextMessage")
     ELSE IF wOutcome = "error" /\ IsNameTaken(wError) THEN Enter("info")
     ELSE Goto("aborted")
  /\ UNCHANGED <<now, managerVars, channelVars>>

\* resolveChannelIdByName: conversations.info
InfoContinues ==
  /\ ipc = "info" /\ phase = "settled"
  /\ IF wOutcome = "ok" THEN Goto("nextMessage") ELSE Enter("list2")
  /\ UNCHANGED <<now, managerVars, channelVars>>

\* resolveChannelIdByName: conversations.list; without a match the name
\* itself serves as the channel id
List2Continues ==
  /\ ipc = "list2" /\ phase = "settled"
  /\ Goto("nextMessage")
  /\ UNCHANGED <<now, managerVars, channelVars>>

\* Slack ts assigned to the chat.postMessage of the i-th message of a channel
TsOf(i) == i

\* processChannel: threadTs = threadMap.get(message.threadId) (0: undefined)
ThreadTsOf(threadId, map) ==
  IF threadId # NoThread /\ MapHas(map, threadId) THEN map[threadId] ELSE 0

IsTopLevelMessageUnlessReply(threadId, threadReply, map) ==
  threadId # NoThread /\ ~threadReply

\* processChannel: isTopLevelMessage
IsTopLevelMessage(threadId, threadReply, map) ==
  IF threadId = NoThread THEN FALSE
  ELSE IF threadReply THEN ~threadReply
  ELSE ~MapHas(map, threadId)

ShouldStoreThreadAlways(ts, threadId, map) ==
  ts # 0 /\ threadId # NoThread

\* processChannel: messageTs && message.threadId && !threadMap.has(threadId)
ShouldStoreThread(ts, threadId, map) ==
  ts # 0 /\ threadId # NoThread /\ ~MapHas(map, threadId)

UploadStepAfterAllocatePerFile(i, n) ==
  [site |-> "transfer", idx |-> i]

\* uploadAndPostMessageWithAttachments: what follows the getUploadURLExternal
\* call of attachment i of n: the next pass of the first loop, or the first
\* pass of the second loop
UploadStepAfterAllocate(i, n) ==
  IF i < n THEN [site |-> "readFile", idx |-> i + 1]
           ELSE [site |-> "transfer", idx |-> 1]

\* postSlackMessage returned ts (0: undefined) to processChannel after
\* `errors` logger.addError calls for the message in all: the thread map is
\* updated and the loop goes to the next message
MessageReturned(ts, errors) ==
  /\ threadMap' = IF ShouldStoreThread(ts, msg.threadId, threadMap)
                    THEN MapSet(threadMap, msg.threadId, ts)
                    ELSE threadMap
  /\ messageTs' = ts
  /\ msgErrors' = errors
  /\ attIdx' = 0
  /\ allocated' = 0
  /\ transferred' = 0
  /\ finalized' = FALSE
  /\ reactIdx' = 0
  /\ Goto("nextMessage")

\* postSlackMessage returned without an error
MessageSettled(ts) == MessageReturned(ts, msgErrors)

\* the catch block of postSlackMessage: logger.addError, return undefined
MessageFailed == MessageReturned(0, msgErrors + 1)

\* readFile of an attachment failed: logger.addError, then the Error thrown
\* lands in the catch block of postSlackMessage
ReadFailed == MessageReturned(0, msgErrors + 2)

\* postSlackMessage after the message itself is out, with messageTs = ts:
\* addReactionsToMessage when there are reactions and a ts, then return
ReactionsThenReturn(ts) ==
  IF msg.nReactions > 0 /\ ts # 0
    THEN /\ messageTs' = ts
         /\ reactIdx' = 1
         /\ Enter("reaction")
         /\ UNCHANGED <<threadMap, attIdx, allocated, transferred, finalized,
                        msgErrors>>
    ELSE MessageSettled(ts)

\* processChannel: the next message of the channel is taken, its thread is
\* resolved and postSlackMessage starts on it
ProcessMessage ==
  /\ ipc = "nextMessage"
  /\ msgIdx < MaxMessages
  /\ \E threadId \in ThreadKeys \cup {NoThread}, threadReply \in BOOLEAN,
        nAtt \in 0..MaxAttachments, nReact \in 0..MaxReactions :
       /\ threadId = NoThread => ~threadReply
       /\ msg' = [threadId |-> threadId, threadReply |-> threadReply,
                  nAttachments |-> nAtt, nReactions |-> nReact,
                  thread_ts |-> ThreadTsOf(threadId, threadMap),
                  isTopLevelMessage |->
                    IsTopLevelMessage(threadId, threadReply, threadMap)]
       /\ IF nAtt > 0 /\ ~IsTopLevelMessage(threadId, threadReply, threadMap)
            THEN attIdx' = 1 /\ Goto("readFile")
            ELSE attIdx' = 0 /\ Enter("postText")
  /\ msgIdx' = msgIdx + 1
  /\ messageTs' = 0
  /\ msgErrors' = 0
  /\ allocated' = 0
  /\ transferred' = 0
  /\ finalized' = FALSE
  /\ reactIdx' = 0
  /\ UNCHANGED <<now, managerVars, chan, threadMap, rootPosted>>

\* processChannel: the channel has no message left
ChannelDone ==
  /\ ipc = "nextMessage"
  /\ Goto("nextChannel")
  /\ UNCHANGED <<now, managerVars, channelVars>>

\* postTextMessage returned or threw inside postSlackMessage
PostTextContinues ==
  /\ ipc = "postText" /\ phase = "settled"
  /\ IF wOutcome = "ok"
       THEN /\ rootPosted' =
                 IF msg.isTopLevelMessage /\ rootPosted[msg.threadId] = 0
                   THEN [rootPosted EXCEPT ![msg.threadId] = TsOf(msgIdx)]
                   ELSE rootPosted
            /\ IF msg.isTopLevelMessage /\ msg.nAttachments > 0
                 THEN /\ messageTs' = TsOf(msgIdx)
                      /\ attIdx' = 1
                      /\ Goto("readFile")
                      /\ UNCHANGED <<threadMap, allocated, transferred,
                                     finalized, reactIdx, msgErrors>>
                 ELSE ReactionsThenReturn(TsOf(msgIdx))
       ELSE /\ MessageFailed
            /\ UNCHANGED rootPosted
  /\ UNCHANGED <<now, managerVars, chan, msgIdx, msg>>

\* uploadAndPostMessageWithAttachments, first loop: readFile of attachment
\* attIdx, then its getUploadURLExternal call
ReadFile ==
  /\ ipc = "readFile"
  /\ \E readable \in BOOLEAN :
       IF readable
         THEN /\ Enter("allocate")
              /\ UNCHANGED <<threadMap, messageTs, attIdx, allocated,
                             transferred, finalized, reactIdx, msgErrors>>
         ELSE ReadFailed
  /\ UNCHANGED <<now, managerVars, chan, msgIdx, msg, rootPosted>>

\* first loop: getUploadURLExternal of attachment attIdx returned or threw
AllocateContinues ==
  /\ ipc = "allocate" /\ phase = "settled"
  /\ IF wOutcome = "ok"
       THEN LET nx == UploadStepAfterAllocate(attIdx, msg.nAttachments)
            IN  /\ allocated' = allocated + 1
                /\ attIdx' = nx.idx
                /\ IF nx.site = "readFile" THEN Goto("readFile")
                                           ELSE Enter(nx.site)
                /\ UNCHANGED <<threadMap, messageTs, transferred, finalized,
                               reactIdx, msgErrors>>
       ELSE MessageFailed
  /\ UNCHANGED <<now, managerVars, chan, msgIdx, msg, rootPosted>>

TransferContinuesIgnoreFailure ==
  /\ ipc = "transfer" /\ phase = "settled"
  /\ transferred' = IF wOutcome = "ok" THEN transferred + 1 ELSE transferred
  /\ IF attIdx < allocated
       THEN attIdx' = attIdx + 1 /\ Enter("transfer")
       ELSE attIdx' = attIdx /\ Enter("finalize")
  /\ UNCHANGED <<threadMap, messageTs, allocated, finalized, reactIdx,
                 msgErrors>>
  /\ UNCHANGED <<now, managerVars, chan, msgIdx, msg, rootPosted>>

\* second loop: the POST of uploadData[attIdx] to its upload URL settled
TransferContinues ==
  /\ ipc = "transfer" /\ phase = "settled"
  /\ IF wOutcome = "ok"
       THEN /\ transferred' = transferred + 1
            /\ IF attIdx < allocated
                 THEN attIdx' = attIdx + 1 /\ Enter("transfer")
                 ELSE attIdx' = attIdx /\ Enter("finalize")
            /\ UNCHANGED <<threadMap, messageTs, allocated, finalized,
                           reactIdx, msgErrors>>
       ELSE MessageFailed
  /\ UNCHANGED <<now, managerVars, chan, msgIdx, msg, rootPosted>>

\* completeUploadExternal for all the files returned or threw; on success
\* the function waits UploadSettleMs
FinalizeContinues ==
  /\ ipc = "finalize" /\ phase = "settled"
  /\ IF wOutcome = "ok"
       THEN /\ finalized' = TRUE
            /\ ipc' = "uploadWait"
            /\ phase' = "none"
            /\ wAttempt' = 0
            /\ wWakeAt' = now + UploadSettleMs
            /\ wFnCalls' = 0
            /\ wOutcome' = "none"
            /\ wError' = NoError
            /\ tokenTaken' = FALSE
            /\ UNCHANGED <<threadMap, messageTs, attIdx, allocated,
                           transferred, reactIdx, msgErrors>>
       ELSE MessageFailed
  /\ UNCHANGED <<now, managerVars, chan, msgIdx, msg, rootPosted>>

\* uploadAndPostMessageWithAttachments returned to postSlackMessage: a
\* top-level message keeps the ts of its text post, a sub-message has none
UploadWaitOver ==
  /\ ipc = "uploadWait"
  /\ now >= wWakeAt
  /\ IF msg.isTopLevelMessage
       THEN ReactionsThenReturn(messageTs)
       ELSE MessageSettled(0)
  /\ UNCHANGED <<now, managerVars, chan, msgIdx, msg, rootPosted>>

ReactionContinuesNotAwaited ==
  /\ ipc = "reaction" /\ phase \in {"inflight", "settled"}
  /\ IF reactIdx < msg.nReactions
       THEN /\ reactIdx' = reactIdx + 1
            /\ Enter("reaction")
            /\ UNCHANGED <<threadMap, messageTs, attIdx, allocated,
                           transferred, finalized, msgErrors>>
       ELSE MessageSettled(messageTs)
  /\ UNCHANGED <<now, managerVars, chan, msgIdx, msg, rootPosted>>

\* addReactionsToMessage: reactions.add of reaction reactIdx settled; a
\* failure is logged as a warning and the loop goes on
ReactionContinues ==
  /\ ipc = "reaction" /\ phase = "settled"
  /\ IF reactIdx < msg.nReactions
       THEN /\ reactIdx' = reactIdx + 1
            /\ Enter("reaction")
            /\ UNCHANGED <<threadMap, messageTs, attIdx, allocated,
                           transferred, finalized, msgErrors>>
       ELSE MessageSettled(messageTs)
  /\ UNCHANGED <<now, managerVars, chan, msgIdx, msg, rootPosted>>


\* ------------------------------------------------------ Google Chat export
MaxSpaces == 6

\* EXPORT_RATE_LIMITS.maxConcurrentOperations
ExportMaxConcurrentOperations == 5

\* IMPORT_RATE_LIMITS.maxConcurrentOperations
ImportMaxConcurrentOperations == 1

InitExport ==
  /\ xpc = "idle"
  /\ spaces = <<>>

\* the spaces whose callback of spaceOverviews.map is running
SpacesInProcess == {i \in DOMAIN spaces : spaces[i] = "processing"}

\* exportGoogleChatData up to getSpaceOverviews: listSpaces returned n target
\* spaces; targetSpaces.map starts listMessages for every one of them
StartExport ==
  /\ xpc = "idle"
  /\ \E n \in 0..MaxSpaces :
       IF n = 0
         THEN xpc' = "done" /\ spaces' = <<>>
         ELSE xpc' = "overviews" /\ spaces' = [i \in 1..n |-> "listing"]
  /\ UNCHANGED now

\* listMessages of one space returned
OverviewSettles(i) ==
  /\ xpc = "overviews"
  /\ i \in DOMAIN spaces
  /\ spaces[i] = "listing"
  /\ spaces' = [spaces EXCEPT ![i] = "listed"]
  /\ UNCHANGED <<now, xpc>>

\* Promise.all of getSpaceOverviews resolved; spaceOverviews.map calls the
\* async callback of every space, each running up to its first await
MapSpaces ==
  /\ xpc = "overviews"
  /\ \A i \in DOMAIN spaces : spaces[i] = "listed"
  /\ xpc' = "processing"
  /\ spaces' = [i \in DOMAIN spaces |-> "processing"]
  /\ UNCHANGED now

\* the callback of one space returned: its messages are processed
SpaceSettles(i) ==
  /\ xpc = "processing"
  /\ i \in DOMAIN spaces
  /\ spaces[i] = "processing"
  /\ spaces' = [spaces EXCEPT ![i] = "exported"]
  /\ UNCHANGED <<now, xpc>>

\* Promise.all over the spaces resolved: users are fetched, the file written
FinishExport ==
  /\ xpc = "processing"
  /\ \A i \in DOMAIN spaces : spaces[i] = "exported"
  /\ xpc' = "done"
  /\ UNCHANGED <<now, spaces>>


\* ------------------------------------------------------ isRateLimitError
HttpStatuses == {429, 403, 500}

ErrorCodes == {SlackRateLimitedCode, SlackPlatformErrorCode}

MessageTexts == {{}, {MsgQuotaExceeded, MsgQuotaMetric}, {MsgRateLimited}}

\* Error objects with any combination of the properties response.status,
\* status, code and message
ErrorShapes ==
  { [name |-> "shape",
     hasResponse |-> rs # 0, responseStatus |-> rs,
     hasStatus |-> st # 0, status |-> st,
     hasCode |-> cd # "", code |-> cd,
     dataError |-> "", isError |-> TRUE, message |-> m] :
       rs \in HttpStatuses \cup {0}, st \in HttpStatuses \cup {0},
       cd \in ErrorCodes \cup {""}, m \in MessageTexts }

InitClassifier ==
  classified = [done |-> FALSE, error |-> NoError, isRateLimit |-> FALSE]

\* isRateLimitError(error) is called
Classify ==
  /\ \E error \in ErrorShapes :
       classified' = [done |-> TRUE, error |-> error,
                      isRateLimit |-> IsRateLimitError(error)]
  /\ UNCHANGED now


\* ------------------------------------- bucket with capacity 5, 1 token/s
MaxConcreteRetries == 3

\* number of acquireToken calls of the scenario
ConcreteCalls == 6

ConcreteBaseDelays == {100, 500, 1000, 2000}

ConcreteMaxDelays == {1000, 60000}

\* capacity 5 and refillRate 1 with any of the delays and retry counts
ConcreteConfigs ==
  { [capacity |-> 5, refillRate |-> [num |-> 1, den |-> 1],
     maxRetries |-> r, baseDelayMs |-> b, maxDelayMs |-> m] :
       r \in 1..MaxConcreteRetries, b \in ConcreteBaseDelays,
       m \in ConcreteMaxDelays }

\* the one caller of the scenario
ConcreteCaller == 1

\* the caller issues its next acquireToken call as soon as the previous one
\* settled, with no time passing in between
ConcreteAcquire ==
  /\ cpc[ConcreteCaller] = "idle"
  /\ cResult[ConcreteCaller] # "exhausted"
  /\ started < ConcreteCalls
  /\ started' = started + 1
  /\ AcquirePass(ConcreteCaller, 0)
  /\ UNCHANGED <<now, cfg>>


\* ------------------------------------------- workers sharing the manager
NumWorkers == 2
MaxManagerCalls == 6
MaxConfigures == 1
MaxManagerNow == 2000

Workers == 1..NumWorkers

ManagerTimeStepMs == 2000

\* customConfig of the test "should allow custom configuration"
CfgCustom ==
  [capacity |-> 100, refillRate |-> [num |-> 20, den |-> 1],
   maxRetries |-> 5, baseDelayMs |-> 500, maxDelayMs |-> 5000]

\* the configurations handed to manager.configure
CustomConfigs == {CfgCustom, CfgCapped}

\* the tiers the workers touch
WorkerServices == {ServiceSlack, ServiceGoogleDirectory}

IdleWorker ==
  [pc |-> "idle", service |-> "", gen |-> 0, attempt |-> 0, wakeAt |-> 0]

NoStatus == [service |-> "", available |-> 0, capacity |-> 0]

NoConfigure ==
  [valid |-> FALSE, service |-> "", config |-> CfgCapped,
   before |-> [s \in Services |-> NoStatus], replacedTokens |-> 0,
   waiters |-> 0]

InitRegistry ==
  /\ mw = [w \in Workers |-> IdleWorker]
  /\ created = [s \in Services |-> 0]
  /\ replaced = EmptyMap
  /\ granted = [s \in Services |-> 0]
  /\ touchedAt = [s \in Services |-> 0]
  /\ mcalls = 0
  /\ configured = {}
  /\ mconfigures = 0
  /\ lastConfigure = NoConfigure

\* what manager.getStatus(service) returns at time t in global state `state`
GetStatus(state, service, t) ==
  LET g == EnsureServiceInitialized(state, service, t)
  IN  [service |-> service,
       available |-> RefillTokens(g.tokenBuckets[service],
                                  g.configs[service], t).tokens,
       capacity |-> g.configs[service].capacity]

\* number of token buckets createTokenBucket built for `service` on the way
\* from global state `before` to `after`
BucketsConstructed(before, after, service) ==
  IF \/ ~MapHas(before.tokenBuckets, service)
     \/ before.tokenBuckets[service] # after.tokenBuckets[service]
     \/ before.configs[service] # after.configs[service]
    THEN 1 ELSE 0

\* the workers whose pending call holds bucket number `gen` of `service`
Holders(service, gen) ==
  {w \in Workers : /\ mw[w].pc = "sleeping"
                   /\ mw[w].service = service
                   /\ mw[w].gen = gen}

MapRemove(m, k) == [x \in DOMAIN m \ {k} |-> m[x]]

\* manager.acquireToken(service) up to its first await: the registry lookup
\* and the first pass of tokenBucket.acquireToken()
ManagerAcquireToken(w, service) ==
  /\ mw[w].pc = "idle"
  /\ mcalls < MaxManagerCalls
  /\ LET g == EnsureServiceInitialized(GlobalState, service, now)
         built == BucketsConstructed(GlobalState, g, service)
         it == AcquireIteration(g.tokenBuckets[service], g.configs[service],
                                0, now)
     IN  /\ tokenBuckets' = MapSet(g.tokenBuckets, service, it.state)
         /\ configs' = g.configs
         /\ executors' = g.executors
         /\ created' = [created EXCEPT ![service] = @ + built]
         /\ touchedAt' = IF created[service] = 0
                           THEN [touchedAt EXCEPT ![service] = now]
                           ELSE touchedAt
         /\ granted' = IF it.outcome = "acquired"
                         THEN [granted EXCEPT ![service] = @ + 1]
                         ELSE granted
         /\ mw' = IF it.outcome = "sleep"
                    THEN [mw EXCEPT ![w] =
                            [pc |-> "sleeping", service |-> service,
                             gen |-> created'[service], attempt |-> 0,
                             wakeAt |-> now + it.delayMs]]
                    ELSE mw
  /\ mcalls' = mcalls + 1
  /\ lastConfigure' = NoConfigure
  /\ UNCHANGED <<now, replaced, configured, mconfigures>>

\* the sleep() of a pending call is over: the next pass of acquireToken on
\* the bucket object the call looked up when it started
ManagerAcquireResume(w) ==
  /\ mw[w].pc = "sleeping"
  /\ now >= mw[w].wakeAt
  /\ LET service == mw[w].service
         key == <<service, mw[w].gen>>
         current == mw[w].gen = created[service]
         held == IF current
                   THEN [state |-> tokenBuckets[service],
                         config |-> configs[service]]
                   ELSE replaced[key]
         it == AcquireIteration(held.state, held.config, mw[w].attempt + 1,
                                now)
         others == Holders(service, mw[w].gen) \ {w}
     IN  /\ tokenBuckets' = IF current
                              THEN MapSet(tokenBuckets, service, it.state)
                              ELSE tokenBuckets
         /\ replaced' = IF current THEN replaced
                        ELSE IF it.outcome # "sleep" /\ others = {}
                          THEN MapRemove(replaced, key)
                          ELSE MapSet(replaced, key,
                                      [held EXCEPT !.state = it.state])
         /\ granted' = IF it.outcome = "acquired"
                         THEN [granted EXCEPT ![service] = @ + 1]
                         ELSE granted
         /\ mw' = IF it.outcome = "sleep"
                    THEN [mw EXCEPT ![w].attempt = @ + 1,
                                    ![w].wakeAt = now + it.delayMs]
                    ELSE [mw EXCEPT ![w] = IdleWorker]
  /\ lastConfigure' = NoConfigure
  /\ UNCHANGED <<now, configs, executors, created, touchedAt, mcalls,
                 configured, mconfigures>>

\* manager.getStatus(service)
ManagerGetStatus(service) ==
  /\ LET g == EnsureServiceInitialized(GlobalState, service, now)
         built == BucketsConstructed(GlobalState, g, service)
     IN  /\ tokenBuckets' = MapSet(g.tokenBuckets, service,
                                   RefillTokens(g.tokenBuckets[service],
                                                g.configs[service], now))
         /\ configs' = g.configs
         /\ executors' = g.executors
         /\ created' = [created EXCEPT ![service] = @ + built]
         /\ touchedAt' = IF created[service] = 0
                           THEN [touchedAt EXCEPT ![service] = now]
                           ELSE touchedAt
  /\ lastConfigure' = NoConfigure
  /\ UNCHANGED <<now, mw, replaced, granted, mcalls, configured,
                 mconfigures>>

\* manager.configure(service, config)
ManagerConfigure(service, config) ==
  /\ mconfigures < MaxConfigures
  /\ mconfigures' = mconfigures + 1
  /\ LET g == InitializeService(GlobalState, service, config, now)
         holders == Holders(service, created[service])
     IN  /\ tokenBuckets' = g.tokenBuckets
         /\ configs' = g.configs
         /\ executors' = g.executors
         /\ replaced' = IF holders # {}
                          THEN MapSet(replaced, <<service, created[service]>>,
                                      [state |-> tokenBuckets[service],
                                       config |-> configs[service]])
                          ELSE replaced
         /\ lastConfigure' =
              [valid |-> TRUE, service |-> service, config |-> config,
               before |-> [s \in Services |->
                             GetStatus(GlobalState, s, now)],
               replacedTokens |-> IF MapHas(tokenBuckets, service)
                                    THEN tokenBuckets[service].tokens
                                    ELSE -1,
               waiters |-> Cardinality(holders)]
  /\ created' = [created EXCEPT ![service] = @ + 1]
  /\ touchedAt' = IF created[service] = 0
                    THEN [touchedAt EXCEPT ![service] = now]
                    ELSE touchedAt
  /\ configured' = configured \cup {service}
  /\ UNCHANGED <<now, mw, granted, mcalls>>

ManagerTick ==
  /\ now + ManagerTimeStepMs <= MaxManagerNow
  /\ now' = now + ManagerTimeStepMs
  /\ lastConfigure' = NoConfigure
  /\ UNCHANGED <<managerVars, mw, created, replaced, granted, touchedAt,
                 mcalls, configured, mconfigures>>


\* ------------------------------------------------ command configuration
\* values a command's overrides give to the fields they set
OverrideValues ==
  [capacity : {0, 200}, refillRate : {[num |-> 100, den |-> 1]},
   maxRetries : {0}, baseDelayMs : {500}, maxDelayMs : {5000}]

\* Partial<RateLimitConfig>: any subset of the fields, set
PartialConfigs ==
  {[f \in d |-> v[f]] : d \in SUBSET ConfigFields, v \in OverrideValues}

NoCommand ==
  [kind |-> "none", googleChat |-> EmptyMap, googleDirectory |-> EmptyMap,
   slack |-> EmptyMap]

InitCommand == command = NoCommand


\* configureForExport(overrides) at time t
ConfigureForExport(state, overrides, t) ==
  LET chat == InitializeService(
                state, ServiceGoogleChat,
                MergeConfigWithDefaults(ServiceGoogleChat,
                                        overrides.googleChat), t)
  IN  InitializeService(
        chat, ServiceGoogleDirectory,
        MergeConfigWithDefaults(ServiceGoogleDirectory,
                                overrides.googleDirectory), t)

\* the export command configures the rate limiter, once, as it starts
CommandConfigureForExport ==
  /\ command.kind = "none"
  /\ \E chat \in PartialConfigs, directory \in PartialConfigs :
    LET overrides == [NoCommand EXCEPT !.kind = "export",
                                       !.googleChat = chat,
                                       !.googleDirectory = directory]
        g == ConfigureForExport(GlobalState, overrides, now)
    IN  /\ tokenBuckets' = g.tokenBuckets
        /\ configs' = g.configs
        /\ executors' = g.executors
        /\ command' = overrides
        /\ UNCHANGED now

\* the import command configures the rate limiter, once, as it starts
CommandConfigureForImport ==
  /\ command.kind = "none"
  /\ \E slack \in PartialConfigs :
    LET overrides == [NoCommand EXCEPT !.kind = "import", !.slack = slack]
        g == ConfigureForImport(GlobalState, overrides.slack, now)
    IN  /\ tokenBuckets' = g.tokenBuckets
        /\ configs' = g.configs
        /\ executors' = g.executors
        /\ command' = overrides
        /\ UNCHANGED now


\* ------------------------------------------------- calculateBackoffDelay
MaxBackoffAttempt == 6

BackoffBaseDelays == {1, 100, 500, 1000, 2000}

BackoffMaxDelays == {100, 1000, 5000, 30000, 60000}

\* no call made yet with the given baseDelayMs and maxDelayMs
BackoffArguments(baseDelayMs, maxDelayMs) ==
  [baseDelayMs |-> baseDelayMs, maxDelayMs |-> maxDelayMs, called |-> FALSE,
   attempt |-> 0, delayMs |-> 0, previousMs |-> 0]

InitBackoffIdle == backoff = BackoffArguments(1, 100)

InitBackoff ==
  backoff \in {BackoffArguments(b, m) :
                 b \in BackoffBaseDelays, m \in BackoffMaxDelays}

\* a retry loop calls calculateBackoffDelay(attempt, baseDelayMs, maxDelayMs)
\* for attempt 0, 1, 2, ... in turn
BackoffCall ==
  LET attempt == IF backoff.called THEN backoff.attempt + 1 ELSE 0
  IN  /\ attempt <= MaxBackoffAttempt
      /\ backoff' = [backoff EXCEPT
                       !.called = TRUE,
                       !.attempt = attempt,
                       !.previousMs = backoff.delayMs,
                       !.delayMs = CalculateBackoffDelay(
                                     attempt, backoff.baseDelayMs,
                                     backoff.maxDelayMs)]
      /\ UNCHANGED now



\* ------------------------------------------- RateLimiter (rate-limiter.ts)
NumLimiterCallers == 3
MaxLimiterCalls == 4
MaxLimiterNow == 90000

LimiterCallers == 1..NumLimiterCallers

\* the window of requestHistory
WindowMs == 60000

LimiterTimeStepMs == 30000

\* options of the RateLimiter
LimiterOptions ==
  [maxRequestsPerMinute |-> 2, retryDelayMs |-> 30000, maxRetries |-> 1,
   exponentialBackoffBase |-> 2]

\* what the work function may throw: a rate-limit error or another one
LimiterFnErrors == {ErrGaxios429, ErrGaxios403}

IdleLimiterCaller == [pc |-> "idle", retryCount |-> 0, wakeAt |-> 0]

InitLimiter ==
  limiter = [history |-> <<>>, starts |-> <<>>, calls |-> 0,
             callers |-> [c \in LimiterCallers |-> IdleLimiterCaller]]

\* the entries of a sequence of timestamps that are younger than the window
Younger(timestamps, t) ==
  SelectSeq(timestamps, LAMBDA ts : ts > t - WindowMs)

\* cleanOldRequests() at time t
CleanOldRequests(history, t) == Younger(history, t)

\* RateLimiter.isRateLimitError
LimiterIsRateLimitError(error) ==
  IF error.hasResponse THEN error.responseStatus = 429
  ELSE IF error.hasStatus THEN error.status = 429
  ELSE IF error.isError /\ error.message # {}
    THEN {MsgQuotaExceeded, MsgQuotaMetric, MsgCriticalRead}
           \cap error.message # {}
  ELSE FALSE

\* RateLimiter.calculateBackoffDelay(retryCount)
LimiterBackoffDelay(retryCount) ==
  LimiterOptions.retryDelayMs
    * LimiterOptions.exponentialBackoffBase ^ retryCount

\* waitIfNeeded() up to its await or its return: the history is cleaned and
\* counted; at the limit the caller sleeps until the oldest entry leaves the
\* window, otherwise fn() is invoked
WaitIfNeeded(c, retryCount) ==
  LET history == CleanOldRequests(limiter.history, now)
      waitTime == WindowMs - (now - history[1])
  IN  IF Len(history) >= LimiterOptions.maxRequestsPerMinute /\ waitTime > 0
        THEN [limiter EXCEPT
                !.history = history,
                !.callers[c] = [pc |-> "waiting", retryCount |-> retryCount,
                                wakeAt |-> now + waitTime]]
        ELSE [limiter EXCEPT
                !.history = history,
                !.starts = Append(Younger(limiter.starts, now), now),
                !.callers[c] = [pc |-> "fn", retryCount |-> retryCount,
                                wakeAt |-> 0]]

\* execute(fn) is called: retryCount = 0 and the first waitIfNeeded()
LimiterExecute(c) ==
  /\ limiter.callers[c].pc = "idle"
  /\ limiter.calls < MaxLimiterCalls
  /\ limiter' = [WaitIfNeeded(c, 0) EXCEPT !.calls = limiter.calls + 1]
  /\ UNCHANGED now

\* the sleep() of waitIfNeeded is over: cleanOldRequests(), then fn()
LimiterWaitOver(c) ==
  /\ limiter.callers[c].pc = "waiting"
  /\ now >= limiter.callers[c].wakeAt
  /\ limiter' = [limiter EXCEPT
                   !.history = CleanOldRequests(limiter.history, now),
                   !.starts = Append(Younger(limiter.starts, now), now),
                   !.callers[c].pc = "fn",
                   !.callers[c].wakeAt = 0]
  /\ UNCHANGED now

\* fn() resolves: recordRequest(), execute returns the result
LimiterFnResolves(c) ==
  /\ limiter.callers[c].pc = "fn"
  /\ limiter' = [limiter EXCEPT
                   !.history = CleanOldRequests(Append(limiter.history, now),
                                                now),
                   !.callers[c] = IdleLimiterCaller]
  /\ UNCHANGED now

\* fn() rejects: the catch block of execute
LimiterFnRejects(c) ==
  /\ limiter.callers[c].pc = "fn"
  /\ \E error \in LimiterFnErrors :
       IF /\ LimiterIsRateLimitError(error)
          /\ limiter.callers[c].retryCount < LimiterOptions.maxRetries
         THEN limiter' =
                [limiter EXCEPT
                   !.callers[c].pc = "backoff",
                   !.callers[c].wakeAt =
                     now + LimiterBackoffDelay(limiter.callers[c].retryCount)]
         ELSE limiter' = [limiter EXCEPT !.callers[c] = IdleLimiterCaller]
  /\ UNCHANGED now

\* the backoff sleep() of the catch block is over: retryCount++, continue,
\* and the next waitIfNeeded()
LimiterBackoffOver(c) ==
  /\ limiter.callers[c].pc = "backoff"
  /\ now >= limiter.callers[c].wakeAt
  /\ limiter' = WaitIfNeeded(c, limiter.callers[c].retryCount + 1)
  /\ UNCHANGED now

\* the clock moves forward; starts that left the window are forgotten
LimiterTick ==
  /\ now + LimiterTimeStepMs <= MaxLimiterNow
  /\ now' = now + LimiterTimeStepMs
  /\ limiter' = [limiter EXCEPT !.starts = Younger(limiter.starts, now')]



\* ------------------------------------------------ UserCache (user-cache.ts)
NumUserIds == 2
MaxCacheSets == 4
MaxCacheNow == 450000

UserIds == 1..NumUserIds

CacheTimeStepMs == 150000

\* new UserCache(): the defaults of the constructor
UserCacheOptions == [cacheExpiryMs |-> 300000, maxAttempts |-> 3]

\* no entry of the Map for a user id
NoEntry == [present |-> FALSE, hasUser |-> FALSE, timestamp |-> 0, attempts |-> 0]

NoResult == [op |-> "none", userId |-> 0, value |-> "none"]

\* an empty Map; failed counts, per user id, the set calls with isError in a
\* row since the last set without isError, clear or removal of an expired
\* entry
InitUserCache ==
  userCache = [cache |-> [u \in UserIds |-> NoEntry],
               failed |-> [u \in UserIds |-> 0],
               sets |-> 0,
               last |-> NoResult]

IsExpired(entry, t) == t - entry.timestamp > UserCacheOptions.cacheExpiryMs

MaxAttemptsReached(entry) == entry.attempts >= UserCacheOptions.maxAttempts

\* shouldSkip(userId)
ShouldSkip(cache, u) ==
  IF cache[u].present THEN MaxAttemptsReached(cache[u]) ELSE FALSE

\* get(userId): an expired entry, and one that reached maxAttempts, is deleted
UserCacheGet(u) ==
  LET entry == userCache.cache[u] IN
  /\ userCache' =
       IF ~entry.present
       THEN [userCache EXCEPT !.last = [op |-> "get", userId |-> u, value |-> "undefined"]]
       ELSE IF IsExpired(entry, now) \/ MaxAttemptsReached(entry)
       THEN [userCache EXCEPT
               !.cache[u] = NoEntry,
               !.failed[u] = IF IsExpired(entry, now) THEN 0 ELSE @,
               !.last = [op |-> "get", userId |-> u, value |-> "undefined"]]
       ELSE [userCache EXCEPT
               !.last = [op |-> "get", userId |-> u,
                         value |-> IF entry.hasUser THEN "user" ELSE "undefined"]]
  /\ UNCHANGED now

\* set(userId, user, isError)
UserCacheSet(u, hasUser, isError) ==
  LET existing == userCache.cache[u]
      attempts == IF isError
                  THEN (IF existing.present THEN existing.attempts ELSE 0) + 1
                  ELSE 0
  IN
  /\ userCache.sets < MaxCacheSets
  /\ userCache' = [userCache EXCEPT
       !.cache[u] = [present |-> TRUE, hasUser |-> hasUser,
                     timestamp |-> now, attempts |-> attempts],
       !.failed[u] = IF isError THEN @ + 1 ELSE 0,
       !.sets = @ + 1,
       !.last = NoResult]
  /\ UNCHANGED now

\* shouldSkip(userId), called
UserCacheShouldSkip(u) ==
  /\ userCache' = [userCache EXCEPT
       !.last = [op |-> "shouldSkip", userId |-> u,
                 value |-> IF ShouldSkip(userCache.cache, u) THEN "true" ELSE "false"]]
  /\ UNCHANGED now

\* cleanup(): the expired entries are deleted
UserCacheCleanup ==
  /\ userCache' = [userCache EXCEPT
       !.cache = [u \in UserIds |->
                    IF @[u].present /\ IsExpired(@[u], now) THEN NoEntry ELSE @[u]],
       !.failed = [u \in UserIds |->
                    IF userCache.cache[u].present /\ IsExpired(userCache.cache[u], now)
                    THEN 0 ELSE @[u]],
       !.last = NoResult]
  /\ UNCHANGED now

\* getStats(): the size of the Map
UserCacheGetStats ==
  /\ userCache' = [userCache EXCEPT
       !.last = [op |-> "getStats", userId |-> 0,
                 value |-> ToString(Cardinality({u \in UserIds : userCache.cache[u].present}))]]
  /\ UNCHANGED now

\* clear()
UserCacheClear ==
  /\ userCache' = [userCache EXCEPT
       !.cache = [u \in UserIds |-> NoEntry],
       !.failed = [u \in UserIds |-> 0],
       !.last = NoResult]
  /\ UNCHANGED now

\* the clock moves forward
UserCacheTick ==
  /\ now + CacheTimeStepMs <= MaxCacheNow
  /\ now' = now + CacheTimeStepMs
  /\ UNCHANGED userCache

InitUtil == InitCommand /\ InitBackoffIdle /\ InitLimiter /\ InitUserCache

\* ------------------------------------------------------------ specifications
Init ==
  /\ InitBucket /\ InitExec /\ InitImport /\ InitExport /\ InitClassifier
  /\ InitRegistry /\ InitUtil

Next ==
  \/ Tick /\ UNCHANGED <<execVars, importVars, extraVars>>
  \/ \E p \in Callers : AcquireToken(p) /\ UNCHANGED <<execVars, importVars, extraVars>>
  \/ \E p \in Callers : AcquireResume(p) /\ UNCHANGED <<execVars, importVars, extraVars>>
  \/ GetAvailableTokens /\ UNCHANGED <<execVars, importVars, extraVars>>

Spec == Init /\ [][Next]_vars

NextExecutor ==
  \/ ExecTick /\ UNCHANGED <<importVars, extraVars>>
  \/ ExecCall /\ UNCHANGED <<importVars, extraVars>>
  \/ ExecAcquireResume /\ UNCHANGED <<importVars, extraVars>>
  \/ ExecFnResolves /\ UNCHANGED <<importVars, extraVars>>
  \/ ExecFnRejects /\ UNCHANGED <<importVars, extraVars>>
  \/ ExecBackoffResume /\ UNCHANGED <<importVars, extraVars>>

SpecExecutor == Init /\ [][NextExecutor]_vars

NextImport ==
  \/ ImportTick /\ UNCHANGED <<bucketVars, execVars, extraVars>>
  \/ StartImport /\ UNCHANGED <<bucketVars, execVars, extraVars>>
  \/ GatedAcquire /\ UNCHANGED <<bucketVars, execVars, extraVars>>
  \/ CallResolves /\ UNCHANGED <<bucketVars, execVars, extraVars>>
  \/ CallRejects /\ UNCHANGED <<bucketVars, execVars, extraVars>>
  \/ ProcessChannel /\ UNCHANGED <<bucketVars, execVars, extraVars>>
  \/ ImportDone /\ UNCHANGED <<bucketVars, execVars, extraVars>>
  \/ ListContinues /\ UNCHANGED <<bucketVars, execVars, extraVars>>
  \/ CreateContinues /\ UNCHANGED <<bucketVars, execVars, extraVars>>
  \/ InfoContinues /\ UNCHANGED <<bucketVars, execVars, extraVars>>
  \/ List2Continues /\ UNCHANGED <<bucketVars, execVars, extraVars>>
  \/ ProcessMessage /\ UNCHANGED <<bucketVars, execVars, extraVars>>
  \/ ChannelDone /\ UNCHANGED <<bucketVars, execVars, extraVars>>
  \/ PostTextContinues /\ UNCHANGED <<bucketVars, execVars, extraVars>>
  \/ ReadFile /\ UNCHANGED <<bucketVars, execVars, extraVars>>
  \/ AllocateContinues /\ UNCHANGED <<bucketVars, execVars, extraVars>>
  \/ TransferContinues /\ UNCHANGED <<bucketVars, execVars, extraVars>>
  \/ FinalizeContinues /\ UNCHANGED <<bucketVars, execVars, extraVars>>
  \/ UploadWaitOver /\ UNCHANGED <<bucketVars, execVars, extraVars>>
  \/ ReactionContinues /\ UNCHANGED <<bucketVars, execVars, extraVars>>

\* an import run does not use the stand-alone bucket and executor, which
\* stay as constructed with one configuration
InitImportRun == Init /\ cfg = CfgBurst

SpecImport == InitImportRun /\ [][NextImport]_vars


NextExport ==
  \/ StartExport /\ UNCHANGED <<bucketVars, execVars, importVars, classified, registryVars, utilVars>>
  \/ \E i \in 1..MaxSpaces :
       OverviewSettles(i) /\ UNCHANGED <<bucketVars, execVars, importVars, classified, registryVars, utilVars>>
  \/ MapSpaces /\ UNCHANGED <<bucketVars, execVars, importVars, classified, registryVars, utilVars>>
  \/ \E i \in 1..MaxSpaces :
       SpaceSettles(i) /\ UNCHANGED <<bucketVars, execVars, importVars, classified, registryVars, utilVars>>
  \/ FinishExport /\ UNCHANGED <<bucketVars, execVars, importVars, classified, registryVars, utilVars>>

SpecExport == Init /\ [][NextExport]_vars


NextClassifier ==
  Classify
    /\ UNCHANGED <<bucketVars, execVars, importVars, exportVars, registryVars,
                   utilVars>>

SpecClassifier == Init /\ [][NextClassifier]_vars


\* the token bucket with its timers: the clock advances to the due time of
\* a pending sleep() timer, and the caller it wakes runs
InitAcquire ==
  /\ InitBucketFor(Configs \cup {CfgCapped})
  /\ InitExec /\ InitImport /\ InitExport /\ InitClassifier /\ InitRegistry
  /\ InitUtil

NextAcquire ==
  \/ \E p \in Callers :
       AcquireToken(p) /\ UNCHANGED <<execVars, importVars, extraVars>>
  \/ \E p \in Callers :
       AcquireResume(p) /\ UNCHANGED <<execVars, importVars, extraVars>>
  \/ \E p \in Callers :
       SleepTick(p) /\ UNCHANGED <<execVars, importVars, extraVars>>

\* timers that are due fire and woken callers run (the event loop)
SpecAcquire ==
  /\ InitAcquire
  /\ [][NextAcquire]_vars
  /\ WF_vars(\E p \in Callers :
               SleepTick(p) /\ UNCHANGED <<execVars, importVars, extraVars>>)
  /\ WF_vars(\E p \in Callers :
               AcquireResume(p)
                 /\ UNCHANGED <<execVars, importVars, extraVars>>)


InitConcrete ==
  /\ InitBucketFor(ConcreteConfigs)
  /\ InitExec /\ InitImport /\ InitExport /\ InitClassifier /\ InitRegistry
  /\ InitUtil

NextConcrete ==
  \/ ConcreteAcquire /\ UNCHANGED <<execVars, importVars, extraVars>>
  \/ AcquireResume(ConcreteCaller)
       /\ UNCHANGED <<execVars, importVars, extraVars>>
  \/ SleepTick(ConcreteCaller)
       /\ UNCHANGED <<execVars, importVars, extraVars>>

SpecConcrete == InitConcrete /\ [][NextConcrete]_vars


\* the manager serves only the registry: the import run and its calls stay
\* as constructed
nonRegistryVars == <<bucketVars, execVars, callVars, channelVars, exportVars,
                     classified, utilVars>>

NextManager ==
  \/ ManagerTick /\ UNCHANGED nonRegistryVars
  \/ \E w \in Workers, s \in WorkerServices :
       ManagerAcquireToken(w, s) /\ UNCHANGED nonRegistryVars
  \/ \E w \in Workers : ManagerAcquireResume(w) /\ UNCHANGED nonRegistryVars
  \/ \E s \in WorkerServices : ManagerGetStatus(s) /\ UNCHANGED nonRegistryVars
  \/ \E s \in WorkerServices, c \in CustomConfigs :
       ManagerConfigure(s, c) /\ UNCHANGED nonRegistryVars

SpecManager == InitImportRun /\ [][NextManager]_vars


nonCommandVars == <<bucketVars, execVars, callVars, channelVars, exportVars,
                    classified, registryVars, backoff, limiter, userCache>>

NextCommand ==
  \/ CommandConfigureForExport /\ UNCHANGED nonCommandVars
  \/ CommandConfigureForImport /\ UNCHANGED nonCommandVars

SpecCommand == InitImportRun /\ [][NextCommand]_vars


InitBackoffRun ==
  /\ InitBucketFor({CfgBurst})
  /\ InitExec /\ InitImport /\ InitExport /\ InitClassifier /\ InitRegistry
  /\ InitCommand /\ InitBackoff /\ InitLimiter /\ InitUserCache

NextBackoff ==
  BackoffCall
    /\ UNCHANGED <<bucketVars, execVars, importVars, exportVars, classified,
                   registryVars, command, limiter, userCache>>

SpecBackoff == InitBackoffRun /\ [][NextBackoff]_vars


nonLimiterVars == <<bucketVars, execVars, importVars, exportVars, classified,
                    registryVars, command, backoff, userCache>>

NextLimiter ==
  \/ LimiterTick /\ UNCHANGED nonLimiterVars
  \/ \E c \in LimiterCallers : LimiterExecute(c) /\ UNCHANGED nonLimiterVars
  \/ \E c \in LimiterCallers : LimiterWaitOver(c) /\ UNCHANGED nonLimiterVars
  \/ \E c \in LimiterCallers : LimiterFnResolves(c) /\ UNCHANGED nonLimiterVars
  \/ \E c \in LimiterCallers : LimiterFnRejects(c) /\ UNCHANGED nonLimiterVars
  \/ \E c \in LimiterCallers : LimiterBackoffOver(c) /\ UNCHANGED nonLimiterVars

SpecLimiter == InitImportRun /\ [][NextLimiter]_vars


nonUserCacheVars == <<bucketVars, execVars, importVars, exportVars, classified,
                      registryVars, command, backoff, limiter>>

NextUserCache ==
  \/ UserCacheTick /\ UNCHANGED nonUserCacheVars
  \/ \E u \in UserIds : UserCacheGet(u) /\ UNCHANGED nonUserCacheVars
  \/ \E u \in UserIds, hasUser \in BOOLEAN, isError \in BOOLEAN :
       UserCacheSet(u, hasUser, isError) /\ UNCHANGED nonUserCacheVars
  \/ \E u \in UserIds : UserCacheShouldSkip(u) /\ UNCHANGED nonUserCacheVars
  \/ UserCacheCleanup /\ UNCHANGED nonUserCacheVars
  \/ UserCacheGetStats /\ UNCHANGED nonUserCacheVars
  \/ UserCacheClear /\ UNCHANGED nonUserCacheVars

SpecUserCache == InitImportRun /\ [][NextUserCache]_vars


\* ------------------------------------------------------------------ claims
\* C1: every value returned by getAvailableTokens lies in 0..capacity, and a
\* bucket left idle long enough to accrue more than capacity tokens reports
\* exactly capacity.
C1_ObservedWithinCapacity ==
  /\ 0 <= bucket.tokens /\ bucket.tokens <= cfg.capacity
  /\ observed.valid =>
       /\ 0 <= observed.value /\ observed.value <= cfg.capacity
       /\ observed.accrued > cfg.capacity => observed.value = cfg.capacity

\* a depleted bucket, idle until more than capacity tokens accrued, reports
\* capacity
C1_Witness ==
  /\ observed.valid
  /\ observed.preTokens = 0
  /\ observed.accrued > cfg.capacity
  /\ observed.value = cfg.capacity

AllRateLimited(outcomes) ==
  \A i \in 1..Len(outcomes) : IsRateLimitError(outcomes[i])

\* C2: no token is spent twice: the acquireToken calls that succeeded never
\* exceed the initial capacity plus the tokens added by refill, and k <=
\* capacity calls started on the full bucket with no clock advance all
\* succeed and leave capacity - k tokens.
C2_NoDoubleSpend ==
  /\ succeeded <= cfg.capacity + refilled
  /\ bucket.tokens = cfg.capacity + refilled - succeeded
  /\ (now = 0 /\ started <= cfg.capacity) =>
       /\ succeeded = started
       /\ bucket.tokens = cfg.capacity - started
       /\ \A p \in Callers : cpc[p] = "idle"

\* both callers took a token from the full bucket at time 0 and emptied it
C2_Witness ==
  /\ now = 0
  /\ started = cfg.capacity
  /\ started >= 2
  /\ succeeded = started
  /\ bucket.tokens = 0
  /\ \A p \in Callers : cResult[p] = "acquired"

\* C3: with no acquireToken call since time t1, a getAvailableTokens call at
\* t2 returns min(capacity, tokens(t1) + floor((t2 - t1) * refillRate)),
\* however many getAvailableTokens calls were made in between.
C3_RefillMonotonic ==
  observed.valid =>
    observed.value =
      Min(cfg.capacity,
          base.tokens + TokensToAdd(base.time, cfg.refillRate, now))

\* C4 (as claimed): a run whose work function failed with a rate-limit error
\* on every invocation has invoked it exactly maxRetries + 1 times when the
\* executor rethrows.
C4_ExactlyMaxRetriesPlusOne ==
  (epc = "thrown" /\ Len(fnOutcomes) = fnCalls /\ AllRateLimited(fnOutcomes))
    => fnCalls = cfg.maxRetries + 1

\* C4 (amended): the work function is never invoked more than maxRetries + 1
\* times in a run, and a run that rethrows after rate-limit failures only has
\* invoked it exactly maxRetries + 1 times when none of its acquireToken
\* calls threw.
C4_AtMostMaxRetriesPlusOne ==
  /\ fnCalls <= cfg.maxRetries + 1
  /\ (epc = "thrown" /\ AllRateLimited(fnOutcomes) /\ acqThrows = 0)
       => fnCalls = cfg.maxRetries + 1

\* the executor rethrew after maxRetries + 1 rate-limited invocations
C4_Witness ==
  /\ epc = "thrown"
  /\ AllRateLimited(fnOutcomes)
  /\ acqThrows = 0
  /\ fnCalls = cfg.maxRetries + 1
  /\ fnCalls >= 2
  /\ IsRateLimitError(eError)

\* C5: a work function submitted through executeWithRateLimit that fails
\* with a rate-limit-classified error is retried by the rate-limiting layer:
\* the caller sees such a failure of the function only after it has been
\* invoked maxRetries + 1 times
C5_RateLimitFailureSeenAfterRetries ==
  (phase = "settled" /\ wOutcome = "error" /\ wFnCalls >= 1
     /\ IsRateLimitError(wError))
    => wFnCalls = configs[ServiceSlack].maxRetries + 1

\* C6: every outbound call in flight during an import was issued after a
\* token had been acquired for it from the bucket of its service
C6_EveryCallGated ==
  phase = "inflight" => tokenTaken

\* C7 as stated: the Allocate call of attachment i + 1 begins only after the
\* Transfer of attachment i has completed
C7_PerAttachmentPhases ==
  ipc = "allocate" => transferred >= attIdx - 1

\* C7 amended: for one message with N attachments the Allocate calls are
\* made one at a time in attachment order and all complete before the first
\* Transfer begins; the Transfers are made one at a time in the same order
\* and all complete before the single Finalize call, which covers all N
C7_BatchedPhases ==
  /\ ipc \in {"readFile", "allocate"} =>
       (allocated = attIdx - 1 /\ transferred = 0 /\ ~finalized)
  /\ ipc = "transfer" =>
       (allocated = msg.nAttachments /\ transferred = attIdx - 1
          /\ ~finalized)
  /\ ipc = "finalize" =>
       (allocated = msg.nAttachments /\ transferred = msg.nAttachments
          /\ ~finalized)
  /\ finalized =>
       (allocated = msg.nAttachments /\ transferred = msg.nAttachments)

C7_Witness ==
  /\ ipc = "uploadWait"
  /\ finalized
  /\ msg.nAttachments >= 2
  /\ allocated = msg.nAttachments
  /\ transferred = msg.nAttachments

\* C8: once a message has been posted successfully as the root of a thread
\* whose key had no mapping, the id returned by that post is stored under
\* the key when processChannel is through with the message, whatever
\* happened to the message's later steps, and every later message with the
\* key is posted as a reply whose thread_ts is that id
C8_RootIdStored ==
  /\ ipc = "nextMessage" =>
       \A k \in ThreadKeys :
         rootPosted[k] # 0 =>
           (MapHas(threadMap, k) /\ threadMap[k] = rootPosted[k])
  /\ (ipc = "postText" /\ msg.threadId # NoThread
        /\ rootPosted[msg.threadId] # 0) =>
       msg.thread_ts = rootPosted[msg.threadId]

\* C9: within one channel import an entry of the thread map, once stored,
\* is neither changed nor removed by any later step
C9_WriteOnce ==
  [][\A k \in ThreadKeys :
       (MapHas(threadMap, k) /\ chan' = chan) =>
         (MapHas(threadMap', k) /\ threadMap'[k] = threadMap[k])]_vars

C9_Witness ==
  /\ ipc = "nextMessage"
  /\ msg.threadId # NoThread
  /\ MapHas(threadMap, msg.threadId)
  /\ messageTs # 0
  /\ messageTs # threadMap[msg.threadId]

C11_SpacesWithinMaxConcurrent ==
  Cardinality(SpacesInProcess) <= ExportMaxConcurrentOperations

\* a Transient error: HTTP 5xx or a network-transport failure
IsTransient(error) ==
  \/ error.hasResponse /\ error.responseStatus >= 500
       /\ error.responseStatus <= 599
  \/ error.hasCode /\ error.code = NetworkResetCode

\* C12: a Transient error of the work function is propagated by the
\* executor only when no attempt remains (attempt = maxRetries); while
\* attempts remain the executor backs off and invokes the function again
C12_TransientRetried ==
  (epc = "thrown" /\ IsTransient(eError)) => eAttempt >= cfg.maxRetries

\* a Permanent error: HTTP 4xx other than 429
IsPermanent(error) ==
  error.hasResponse /\ error.responseStatus >= 400
    /\ error.responseStatus <= 499 /\ error.responseStatus # 429

\* an Unknown error: no response, status or code and no rate-limit text
IsUnknown(error) ==
  error.isError /\ ~error.hasResponse /\ ~error.hasStatus /\ ~error.hasCode
    /\ RateLimitSubstrings \cap error.message = {}

\* C13: a Permanent or Unknown error of the work function is not retried:
\* the run ends with that invocation (no backoff sleep and no further
\* invocation follows it) and throws that very error; a work function whose
\* first failure is Permanent or Unknown is invoked exactly once in the run
C13_PermanentNotRetried ==
  \A i \in 1..Len(fnOutcomes) :
    (IsPermanent(fnOutcomes[i]) \/ IsUnknown(fnOutcomes[i])) =>
      /\ i = Len(fnOutcomes)
      /\ fnCalls = i
      /\ epc = "thrown"
      /\ eError = fnOutcomes[i]
      /\ eWakeAt = 0

C13_Witness ==
  /\ epc = "thrown"
  /\ Len(fnOutcomes) = 1
  /\ IsPermanent(fnOutcomes[1])
  /\ fnCalls = 1
  /\ eError = ErrGaxios403

\* an explicit rate-limit signal: HTTP status 429, the platform's
\* rate-limited code or one of the quota / rate-limit message substrings
HasRateLimitSignal(error) ==
  \/ error.hasResponse /\ error.responseStatus = 429
  \/ error.hasStatus /\ error.status = 429
  \/ error.hasCode /\ error.code = SlackRateLimitedCode
  \/ RateLimitSubstrings \cap error.message # {}

\* C14: an error carrying a rate-limit signal classifies as rate-limited
\* whatever its other fields are, and an HTTP 403 error without such a
\* signal does not
C14_RateLimitSignalsFirst ==
  classified.done =>
    /\ HasRateLimitSignal(classified.error) => classified.isRateLimit
    /\ (classified.error.hasResponse
          /\ classified.error.responseStatus = 403
          /\ ~HasRateLimitSignal(classified.error))
         => ~classified.isRateLimit

\* one step of caller p inside acquireToken, as the claim describes it: a
\* pass that finds no token starts a wait of min(baseDelay * 2^attempt,
\* maxDelay) with attempt 0 on the call and one more after each wait, at
\* most maxRetries waits; the call fails only on the pass after the
\* maxRetries-th wait
C15_StepOf(p) ==
  /\ (cpc[p] = "idle" /\ cpc'[p] = "sleeping") =>
       /\ cAttempt'[p] = 0
       /\ cWakeAt'[p] = now + Min(cfg.baseDelayMs, cfg.maxDelayMs)
  /\ (cpc[p] = "sleeping" /\ cpc'[p] = "sleeping"
        /\ cAttempt'[p] # cAttempt[p]) =>
       /\ now >= cWakeAt[p]
       /\ cAttempt'[p] = cAttempt[p] + 1
       /\ cAttempt'[p] < cfg.maxRetries
       /\ cWakeAt'[p] =
            now + Min(cfg.baseDelayMs * (2 ^ cAttempt'[p]), cfg.maxDelayMs)
  /\ (cpc[p] = "sleeping" /\ cpc'[p] = "idle") =>
       /\ now >= cWakeAt[p]
       /\ cResult'[p] \in {"acquired", "exhausted"}
       /\ cResult'[p] = "exhausted" => cAttempt[p] + 1 = cfg.maxRetries

\* C15: acquireToken always terminates: every wait is
\* min(baseDelay * 2^attempt, maxDelay), attempt goes up by one per wait,
\* the call fails with the exhausted error on the pass after maxRetries
\* waits, and a waiting caller eventually gets its token or that error
C15_AcquireTerminates ==
  /\ [][\A p \in Callers : C15_StepOf(p)]_vars
  /\ \A p \in Callers : (cpc[p] = "sleeping") ~> (cpc[p] = "idle")

C15_Witness ==
  /\ cfg = CfgCapped
  /\ \E p \in Callers : cpc[p] = "idle" /\ cResult[p] = "exhausted"

\* how much later than 1 second still counts as about 1 second (ms)
AboutOneSecondSlackMs == 250

\* C16: on a bucket with capacity 5 and 1 token/s the first five immediate
\* calls succeed at once, and the sixth, issued right after them, succeeds
\* when about 1 second has elapsed: not earlier, not failing, not
\* substantially later
C16_SixthAfterOneSecond ==
  /\ (started <= 5 /\ cpc[ConcreteCaller] = "idle") =>
       (succeeded = started /\ now = 0)
  /\ started = 5 => cpc[ConcreteCaller] = "idle"
  /\ (started = ConcreteCalls /\ cpc[ConcreteCaller] = "idle") =>
       /\ cResult[ConcreteCaller] = "acquired"
       /\ now >= 1000
       /\ now <= 1000 + AboutOneSecondSlackMs

\* C17: a message whose post fails adds exactly one error entry to the
\* logger before processChannel goes on to the next message
C17_OneErrorPerFailedMessage ==
  (ipc = "nextMessage" /\ msgErrors # 0) => msgErrors = 1

\* C18: when a call made for a message (its post or a phase of its upload)
\* has failed with an authentication error, the step that handles the
\* failure halts the run instead of going on to the next message
C18_AuthFailureHalts ==
  [][(ipc \in {"postText", "allocate", "finalize"} /\ phase = "settled"
        /\ wOutcome = "error" /\ wError = ErrSlackInvalidAuth)
       => ipc' = "aborted"]_vars

\* C19: a tier that was never configured gets exactly one bucket, built from
\* its default config on the first acquireToken or getStatus call that names
\* it; every pending call on the tier holds that bucket, and the tokens the
\* workers took from it never exceed the default capacity plus what the
\* refill rate yields since the first touch.
C19_FirstTouchSharedBucket ==
  \A s \in Services :
    s \notin configured =>
      /\ created[s] = (IF MapHas(tokenBuckets, s) THEN 1 ELSE 0)
      /\ MapHas(tokenBuckets, s) => configs[s] = GetDefaultConfig(s)
      /\ \A w \in Workers :
           (mw[w].pc = "sleeping" /\ mw[w].service = s) => mw[w].gen = 1
      /\ granted[s] <= GetDefaultConfig(s).capacity
                         + TokensToAdd(touchedAt[s],
                                       GetDefaultConfig(s).refillRate, now)

\* the workers drained the default Slack bucket the moment it was first
\* touched and the next call has to wait
C19_Witness ==
  /\ ServiceSlack \notin configured
  /\ created[ServiceSlack] = 1
  /\ now = touchedAt[ServiceSlack]
  /\ granted[ServiceSlack] = GetDefaultConfig(ServiceSlack).capacity
  /\ \E w \in Workers : mw[w].pc = "sleeping" /\ mw[w].service = ServiceSlack

\* what getStatus reports right after configure(tier, config): the new
\* capacity, all of it available, and every other tier as before the call
ConfigureStatusFresh ==
  lastConfigure.valid =>
    /\ GetStatus(GlobalState, lastConfigure.service, now)
         = [service |-> lastConfigure.service,
            available |-> lastConfigure.config.capacity,
            capacity |-> lastConfigure.config.capacity]
    /\ \A o \in Services \ {lastConfigure.service} :
         GetStatus(GlobalState, o, now) = lastConfigure.before[o]

\* C20 as stated: right after configure(tier, config) getStatus(tier) reports
\* capacity = available = config.capacity, every other tier's status is
\* unchanged, and one bucket alone serves the tier's acquisitions: every
\* pending acquireToken call on the tier draws from the registered bucket.
C20_OneBucketServesAcquisitions ==
  /\ ConfigureStatusFresh
  /\ lastConfigure.valid =>
       \A w \in Workers :
         (mw[w].pc = "sleeping" /\ mw[w].service = lastConfigure.service)
           => mw[w].gen = created[lastConfigure.service]

\* C20 amended: right after configure(tier, config) getStatus(tier) reports
\* capacity = available = config.capacity and every other tier's status is
\* unchanged; the registry holds one bucket per tier, and a pending
\* acquireToken call holds either its tier's registered bucket or the bucket
\* that was registered when the call started and has been replaced since,
\* which lives on exactly as long as such a call holds it.
C20_ConfigureReplacesRegistered ==
  /\ ConfigureStatusFresh
  /\ \A w \in Workers :
       mw[w].pc = "sleeping" =>
         \/ mw[w].gen = created[mw[w].service]
         \/ /\ mw[w].gen < created[mw[w].service]
            /\ MapHas(replaced, <<mw[w].service, mw[w].gen>>)
  /\ \A k \in DOMAIN replaced :
       /\ Holders(k[1], k[2]) # {}
       /\ k[2] < created[k[1]]

\* configure has just replaced a bucket that tokens had been taken from,
\* while another tier's bucket was in use
C20_Witness ==
  /\ lastConfigure.valid
  /\ lastConfigure.replacedTokens >= 0
  /\ lastConfigure.replacedTokens
       < lastConfigure.before[lastConfigure.service].capacity
  /\ \E o \in Services \ {lastConfigure.service} :
       /\ MapHas(tokenBuckets, o)
       /\ tokenBuckets[o].tokens < configs[o].capacity

\* the override the last command gave for a tier
OverrideFor(service) ==
  CASE service = ServiceGoogleChat -> command.googleChat
    [] service = ServiceGoogleDirectory -> command.googleDirectory
    [] service = ServiceSlack -> command.slack

\* the tiers a command configures
ConfiguredBy(kind) ==
  CASE kind = "export" -> {ServiceGoogleChat, ServiceGoogleDirectory}
    [] kind = "import" -> {ServiceSlack}
    [] kind = "none" -> {}

\* C21: after configureForExport / configureForImport every configured tier
\* has, field by field, the override's value where the override sets the
\* field and the tier's default elsewhere, and getStatus reports that
\* capacity, all of it available.
C21_MergedConfigInstalled ==
  \A service \in ConfiguredBy(command.kind) :
    /\ \A f \in ConfigFields :
         configs[service][f] =
           IF f \in DOMAIN OverrideFor(service)
             THEN OverrideFor(service)[f]
             ELSE DefaultConfigs[service][f]
    /\ GetStatus(GlobalState, service, now).capacity
         = IF "capacity" \in DOMAIN OverrideFor(service)
             THEN OverrideFor(service).capacity
             ELSE DefaultConfigs[service].capacity
    /\ GetStatus(GlobalState, service, now).available
         = GetStatus(GlobalState, service, now).capacity

\* the export command overrode capacity and refillRate of Google Chat only,
\* and set a field of Google Directory to 0
C21_Witness ==
  /\ command.kind = "export"
  /\ DOMAIN command.googleChat = {"capacity", "refillRate"}
  /\ command.googleChat.capacity = 200
  /\ GetStatus(GlobalState, ServiceGoogleChat, now).capacity = 200
  /\ configs[ServiceGoogleChat].maxRetries
       = DefaultConfigs[ServiceGoogleChat].maxRetries
  /\ DOMAIN command.googleDirectory = {"maxRetries"}
  /\ configs[ServiceGoogleDirectory].maxRetries = 0

\* C22: in every attempt of the executor the work function is invoked only
\* after the attempt's acquireToken call took a token: a step invokes fn
\* exactly when it takes one token from the bucket, and a step in which the
\* acquisition fails invokes nothing.
C22_TokenBeforeWork ==
  [][LET r == RefillTokens(bucket, cfg, now)
         taken == IF bucket' = bucket THEN 0 ELSE r.tokens - bucket'.tokens
         callsBefore == IF runs' # runs THEN 0 ELSE fnCalls
         throwsBefore == IF runs' # runs THEN 0 ELSE acqThrows
     IN  /\ taken \in {0, 1}
         /\ fnCalls' - callsBefore = taken
         /\ taken = 1 => (TokenAvailable(r.tokens) /\ epc' = "fn")
         /\ acqThrows' > throwsBefore => (taken = 0 /\ epc' # "fn")]_vars

\* a run whose acquisition failed in one attempt invokes fn in a later one
C22_Witness ==
  /\ epc = "fn"
  /\ acqThrows >= 1
  /\ fnCalls >= 1

\* C23: every error the executor propagates to its caller is the original
\* error augmented with the tier identifier and the number of attempts made.
C23_TerminalErrorCarriesContext ==
  epc = "thrown" => {"tier", "attempts"} \subseteq DOMAIN eError

\* C24: a step lowers the token count only when an acquireToken call
\* succeeds in it, and then to exactly one less than the refilled count; a
\* getAvailableTokens call or a pass that finds no token never lowers it; the
\* count rises only by the refill the elapsed time yields; and a call that
\* finds the refilled count at 1 or more succeeds at once, without waiting.
C24_TokensFrame ==
  [][LET r == RefillTokens(bucket, cfg, now)
         add == TokensToAdd(bucket.lastRefillTime, cfg.refillRate, now)
     IN  /\ bucket'.tokens < bucket.tokens =>
              (succeeded' = succeeded + 1
                 /\ bucket'.tokens = bucket.tokens - 1)
         /\ succeeded' = succeeded + 1 =>
              (TokenAvailable(r.tokens) /\ bucket'.tokens = r.tokens - 1)
         /\ succeeded' = succeeded => bucket'.tokens >= bucket.tokens
         /\ bucket'.tokens > bucket.tokens =>
              (add >= 1 /\ bucket'.lastRefillTime = now
                 /\ bucket'.tokens <= Min(cfg.capacity, bucket.tokens + add))
         /\ (started' = started + 1 /\ TokenAvailable(r.tokens)) =>
              (succeeded' = succeeded + 1 /\ cpc' = cpc)]_vars

\* tokens were taken and refilled, a caller is waiting for a token and the
\* bucket has just been observed
C24_Witness ==
  /\ succeeded >= 1
  /\ refilled >= 1
  /\ observed.valid
  /\ \E p \in Callers : cpc[p] = "sleeping"

\* an outbound call of the import has started and has not settled: it waits
\* for its token or is in flight
CallPending == phase \in {"acquire", "inflight"}

\* C25: within a channel the messages are processed one after the other:
\* while a call of a message is pending the import stays at that call, on
\* that message; the next message, and the next channel, are taken only at
\* the head of the loop, when no call is pending.
C25_MessagesSequential ==
  [][/\ CallPending =>
          (ipc' = ipc /\ chan' = chan /\ msgIdx' = msgIdx /\ msg' = msg
             /\ attIdx' = attIdx /\ reactIdx' = reactIdx)
     /\ msgIdx' > msgIdx =>
          (ipc = "nextMessage" /\ ~CallPending /\ msgIdx' = msgIdx + 1
             /\ chan' = chan)]_vars

\* the second message of a channel has its reaction call in flight
C25_Witness ==
  /\ msgIdx = 2
  /\ ipc = "reaction"
  /\ phase = "inflight"

\* the calls of the three upload phases
UploadSites == {"allocate", "transfer", "finalize"}

\* C26: in the upload of a message's attachments every attachment is
\* allocated once, then transferred once, then finalized, each phase only
\* after the one before it succeeded for that attachment; Finalize is issued
\* only when the Transfer of every attachment it covers has succeeded; and an
\* upload-phase call starts only when no other call is pending.
C26_UploadPhasesInOrder ==
  [][/\ allocated' # allocated =>
          \/ allocated' = 0
          \/ /\ allocated' = allocated + 1
             /\ ipc = "allocate" /\ phase = "settled" /\ wOutcome = "ok"
             /\ attIdx = allocated + 1
     /\ transferred' # transferred =>
          \/ transferred' = 0
          \/ /\ transferred' = transferred + 1
             /\ ipc = "transfer" /\ phase = "settled" /\ wOutcome = "ok"
             /\ attIdx = transferred + 1
             /\ attIdx <= allocated
     /\ (ipc' = "finalize" /\ ipc # "finalize") =>
          /\ allocated' = msg.nAttachments
          /\ transferred' = msg.nAttachments
          /\ ~finalized'
     /\ (finalized' /\ ~finalized) =>
          /\ ipc = "finalize" /\ phase = "settled" /\ wOutcome = "ok"
          /\ transferred = msg.nAttachments
     /\ (ipc' \in UploadSites /\ (ipc' # ipc \/ attIdx' # attIdx)) =>
          ~CallPending]_vars

\* the Finalize call of a message with two attachments is in flight after
\* both were allocated and transferred
C26_Witness ==
  /\ ipc = "finalize"
  /\ phase = "inflight"
  /\ msg.nAttachments = 2
  /\ allocated = 2
  /\ transferred = 2

\* C27: the delay for attempt n is baseDelayMs * 2^n where that does not
\* exceed maxDelayMs and maxDelayMs otherwise: baseDelayMs at n = 0 when
\* baseDelayMs <= maxDelayMs, never less than the delay of attempt n - 1 and
\* never more than maxDelayMs.
C27_BackoffDelayExact ==
  backoff.called =>
    /\ backoff.delayMs =
         IF backoff.baseDelayMs * 2 ^ backoff.attempt <= backoff.maxDelayMs
           THEN backoff.baseDelayMs * 2 ^ backoff.attempt
           ELSE backoff.maxDelayMs
    /\ (backoff.attempt = 0 /\ backoff.baseDelayMs <= backoff.maxDelayMs)
         => backoff.delayMs = backoff.baseDelayMs
    /\ backoff.delayMs >= backoff.previousMs
    /\ backoff.delayMs <= backoff.maxDelayMs

\* the delay doubled from one attempt to the next and has now reached the cap
C27_Witness ==
  /\ backoff.called
  /\ backoff.attempt >= 2
  /\ backoff.previousMs = backoff.baseDelayMs * 2 ^ (backoff.attempt - 1)
  /\ backoff.previousMs < backoff.maxDelayMs
  /\ backoff.delayMs = backoff.maxDelayMs
  /\ backoff.delayMs < backoff.baseDelayMs * 2 ^ backoff.attempt

\* C28 as stated: when the acquireToken call of an executor attempt throws
\* the bucket's exhaustion error, the executor rethrows it at once: it does
\* not back off and does not start another acquisition.
C28_ExhaustionPropagatesAtOnce ==
  [][acqThrows' > (IF runs' # runs THEN 0 ELSE acqThrows) =>
       (epc' = "thrown" /\ eError' = ErrBucketExhausted)]_vars

\* C28 amended: the bucket's exhaustion error thrown inside an executor
\* attempt is handled as a rate-limit failure: while attempts remain the
\* executor backs off min(baseDelayMs * 2^attempt, maxDelayMs) and acquires
\* again, and it rethrows the error only in its last attempt; an acquisition
\* waits at most maxRetries times and at most maxRetries + 1 acquisitions of
\* a run fail.
C28_ExhaustionRetried ==
  [][/\ acqThrows' > (IF runs' # runs THEN 0 ELSE acqThrows) =>
          IF eAttempt' < cfg.maxRetries
            THEN /\ epc' = "backoff"
                 /\ eWakeAt' = now + Min(cfg.baseDelayMs * 2 ^ eAttempt',
                                         cfg.maxDelayMs)
            ELSE /\ epc' = "thrown"
                 /\ eError' = ErrBucketExhausted
     /\ bAttempt' <= cfg.maxRetries
     /\ acqThrows' <= eAttempt' + 1
     /\ eAttempt' <= cfg.maxRetries + 1]_vars

\* a run in which two acquisitions failed: the first was retried, the
\* second, in the last attempt, was rethrown
C28_Witness ==
  /\ epc = "thrown"
  /\ eError = ErrBucketExhausted
  /\ acqThrows >= 2

\* C29: under any interleaving of concurrent execute calls the RateLimiter
\* starts no more than maxRequestsPerMinute work functions within any window
\* of 60 seconds.
C29_StartsWithinLimit ==
  Len(Younger(limiter.starts, now)) <= LimiterOptions.maxRequestsPerMinute

\* C30: once a user id has accumulated maxAttempts failed set calls in a row,
\* shouldSkip(userId) is true, and stays so over get, shouldSkip and getStats
\* calls, until a set without isError, a clear or the removal of the expired
\* entry.
C30_SkipStaysTrue ==
  \A u \in UserIds :
    userCache.failed[u] >= UserCacheOptions.maxAttempts
      => ShouldSkip(userCache.cache, u)

====
